---- MODULE Spec2Model ----
(***************************************************************************)
(* Model of the MSRC report client: the bulk-submission page               *)
(* (src/src/app/page.tsx, Home/handleSubmit), the reporting gateway        *)
(* (POST /api/report) and the rate-limiting middleware                     *)
(* (src/src/middleware.ts).                                                *)
(*                                                                         *)
(* Strings whose structure the code inspects (bulk text, header values,    *)
(* e-mail, date, time) are sequences of one-character strings; strings     *)
(* the code only compares or tests for emptiness are TLA+ strings.         *)
(***************************************************************************)
EXTENDS Integers, Sequences, FiniteSets, TLC

VARIABLES
    \* ---- page.tsx, Home(): React state ----
    isAuthenticated, reporterName, reporterEmail,
    incidentType, threatType, availableThreatTypes,
    description, timeZone, bulkData,
    destinationIp, destinationPort, isTest, isAnonymous,
    validationResults, destinationIpValid, destinationPortValid,
    logs, isSubmitting, progress, notification, delayMs,
    \* ---- page.tsx, handleSubmit(): the running async call ----
    pc,             \* "idle" | "fetching" | "waiting": where the call is suspended
    run,            \* the values the call closed over and its locals
    inFlight,       \* the set of fetch('/api/report') calls not yet settled
    dispatched,     \* the requests the current run has issued, in issue order
    \* ---- POST /api/report ----
    gwExchange,     \* the last request handled by POST, with its outcome
    \* ---- GET /api/security/cve/[id], GET /api/security/cvrf/[id] ----
    secExchange,    \* the last request handled by a GET route, with its outcome
    \* ---- middleware.ts ----
    rateLimitMap, now, mwExchange, admitted,
    uncleaned       \* the map as it is if the cleanup loop never runs

pageVars == <<isAuthenticated, reporterName, reporterEmail,
              incidentType, threatType, availableThreatTypes,
              description, timeZone, bulkData,
              destinationIp, destinationPort, isTest, isAnonymous,
              validationResults, destinationIpValid, destinationPortValid,
              logs, isSubmitting, progress, notification, delayMs,
              pc, run, inFlight, dispatched>>
formVars == <<isAuthenticated, reporterName, reporterEmail,
              incidentType, threatType, availableThreatTypes,
              description, timeZone, bulkData,
              destinationIp, destinationPort, isTest, isAnonymous, delayMs,
              validationResults, destinationIpValid, destinationPortValid>>
gwVars == <<gwExchange, secExchange>>
mwVars == <<rateLimitMap, now, mwExchange, admitted, uncleaned>>
vars == <<pageVars, gwVars, mwVars>>

(***************************************************************************)
(* String helpers (String.prototype.split / trim / startsWith / includes)  *)
(***************************************************************************)
Whitespace == {" ", "\t", "\r", "\n"}

RECURSIVE TrimStart(_)
TrimStart(s) ==
    IF s # <<>> /\ Head(s) \in Whitespace THEN TrimStart(Tail(s)) ELSE s

RECURSIVE TrimEnd(_)
TrimEnd(s) ==
    IF s # <<>> /\ s[Len(s)] \in Whitespace
    THEN TrimEnd(SubSeq(s, 1, Len(s) - 1)) ELSE s

Trim(s) == TrimEnd(TrimStart(s))

\* s.split(sep) for a one-character separator: never empty, "" gives [""]
RECURSIVE SplitAcc(_, _, _)
SplitAcc(s, sep, cur) ==
    IF s = <<>> THEN <<cur>>
    ELSE IF Head(s) = sep THEN <<cur>> \o SplitAcc(Tail(s), sep, <<>>)
    ELSE SplitAcc(Tail(s), sep, Append(cur, Head(s)))

Split(s, sep) == SplitAcc(s, sep, <<>>)

StartsWith(s, p) == Len(s) >= Len(p) /\ SubSeq(s, 1, Len(p)) = p

Includes(s, c) == \E i \in 1..Len(s) : s[i] = c

MapTrim(ls) == [i \in 1..Len(ls) |-> Trim(ls[i])]

RECURSIVE FilterNonEmpty(_)
FilterNonEmpty(ls) ==
    IF ls = <<>> THEN <<>>
    ELSE IF Head(ls) # <<>> THEN <<Head(ls)>> \o FilterNonEmpty(Tail(ls))
    ELSE FilterNonEmpty(Tail(ls))

Digits == {"0", "1", "2", "3", "4", "5", "6", "7", "8", "9"}

HexDigits == Digits \cup {"a", "b", "c", "d", "e", "f",
                          "A", "B", "C", "D", "E", "F"}

AllIn(s, S) == \A i \in 1..Len(s) : s[i] \in S

Lower == <<"a", "b", "c", "d", "e", "f", "g", "h", "i", "j", "k", "l", "m",
           "n", "o", "p", "q", "r", "s", "t", "u", "v", "w", "x", "y", "z">>

Upper == <<"A", "B", "C", "D", "E", "F", "G", "H", "I", "J", "K", "L", "M",
           "N", "O", "P", "Q", "R", "S", "T", "U", "V", "W", "X", "Y", "Z">>

\* String.prototype.toUpperCase / toLowerCase
ToUpperCase(s) ==
    [i \in 1..Len(s) |->
        IF \E k \in 1..26 : Lower[k] = s[i]
        THEN Upper[CHOOSE k \in 1..26 : Lower[k] = s[i]] ELSE s[i]]

ToLowerCase(s) ==
    [i \in 1..Len(s) |->
        IF \E k \in 1..26 : Upper[k] = s[i]
        THEN Lower[CHOOSE k \in 1..26 : Upper[k] = s[i]] ELSE s[i]]

\* bulkData.split('\n').map(l => l.trim()).filter(l => l)
ParseLines(text) == FilterNonEmpty(MapTrim(Split(text, "\n")))

\* Math.round((completed / total) * 100), for 0 <= completed <= total, total > 0
RoundPercent(completed, total) == (200 * completed + total) \div (2 * total)

(***************************************************************************)
(* page.tsx: tables                                                        *)
(***************************************************************************)
INCIDENT_TYPES == {"Brute Force", "Denial of Service", "Malware",
                   "Illegal/Violates the rights of others", "Phishing", "Spam"}

THREAT_TYPES == {"IP Address", "URL", "Azure Subscription"}

INCIDENT_THREAT_MAP ==
    [it \in INCIDENT_TYPES |->
        CASE it = "Brute Force" -> <<"IP Address">>
          [] it = "Denial of Service" -> <<"IP Address">>
          [] it = "Malware" -> <<"IP Address", "URL">>
          [] it = "Phishing" -> <<"URL">>
          [] it = "Spam" -> <<"IP Address">>
          [] OTHER -> <<"IP Address", "URL">>]

SeqToSet(s) == {s[i] : i \in 1..Len(s)}

NeedsDestination(it, tt) ==
    (it = "Brute Force" \/ it = "Denial of Service") /\ tt = "IP Address"


(***************************************************************************)
(* JSON values: a tagged value; an object is a function from field names   *)
(* to JSON values, an absent field is a name outside its DOMAIN.           *)
(***************************************************************************)
JStr(x) == [t |-> "str", s |-> x]
JBool(x) == [t |-> "bool", b |-> x]
JNum(x) == [t |-> "num", n |-> x]
JNull == [t |-> "null"]
JObj(f) == [t |-> "obj", f |-> f]

\* a request or response body as text: it either parses to a value or not
JsonText(v) == [parses |-> TRUE, value |-> v]
NotJsonText(raw) == [parses |-> FALSE, value |-> JStr(raw)]

\* JSON.stringify(x)
JSONstringify(v) == JsonText(v)

(***************************************************************************)
(* page.tsx: Report Builder (handleSubmit, loop body up to the fetch)      *)
(***************************************************************************)
\* now.toISOString() split at 'T' and '.': always YYYY-MM-DD and HH:mm:ss
ISODate == <<"2","0","2","6","-","1","1","-","0","1">>
ISOTime == <<"0","9",":","3","0",":","0","0">>

SuspectedTarget == <<"\n","S","u","s","p","e","c","t","e","d"," ",
                     "T","a","r","g","e","t",":"," ">>

\* faulty variant: the destination fields are attached to every report
BuildReport_AlwaysDestination(item, f) ==
    LET base == [date |-> JStr(ISODate),
                 time |-> JStr(ISOTime),
                 timeZone |-> JStr(f.timeZone),
                 incidentType |-> JStr(f.incidentType),
                 threatType |-> JStr(f.threatType),
                 reporterEmail |-> JStr(f.reporterEmail),
                 reporterName |-> JStr(f.reporterName),
                 reportNotes |-> JStr(f.description),
                 testSubmission |-> JBool(f.isTest),
                 anonymizeReport |-> JBool(f.isAnonymous)]
        dest == [destinationIp |-> JStr(f.destinationIp),
                 destinationPort |-> JStr(f.destinationPort)] @@ base
    IN  CASE f.threatType = "URL" -> [sourceUrl |-> JStr(item)] @@ dest
          [] f.threatType = "IP Address" -> [sourceIp |-> JStr(item)] @@ dest
          [] f.threatType = "Azure Subscription" ->
                [reportedSubscriptionId |-> JStr(item)] @@ dest
          [] OTHER ->
                [dest EXCEPT !.reportNotes =
                    JStr(f.description \o SuspectedTarget \o item)]

BuildReport(item, f) ==
    LET base == [date |-> JStr(ISODate),
                 time |-> JStr(ISOTime),
                 timeZone |-> JStr(f.timeZone),
                 incidentType |-> JStr(f.incidentType),
                 threatType |-> JStr(f.threatType),
                 reporterEmail |-> JStr(f.reporterEmail),
                 reporterName |-> JStr(f.reporterName),
                 reportNotes |-> JStr(f.description),
                 testSubmission |-> JBool(f.isTest),
                 anonymizeReport |-> JBool(f.isAnonymous)]
        dest == IF NeedsDestination(f.incidentType, f.threatType)
                THEN [destinationIp |-> JStr(f.destinationIp),
                      destinationPort |-> JStr(f.destinationPort)] @@ base
                ELSE base
    IN  CASE f.threatType = "URL" -> [sourceUrl |-> JStr(item)] @@ dest
          [] f.threatType = "IP Address" -> [sourceIp |-> JStr(item)] @@ dest
          [] f.threatType = "Azure Subscription" ->
                [reportedSubscriptionId |-> JStr(item)] @@ dest
          [] OTHER ->
                [dest EXCEPT !.reportNotes =
                    JStr(f.description \o SuspectedTarget \o item)]

\* fetch('/api/report', {method: 'POST', headers: {'Content-Type': ...}, body})
FetchRequest(item, f) ==
    [url |-> "/api/report",
     method |-> "POST",
     headers |-> ("Content-Type" :> "application/json"),
     body |-> JSONstringify(JObj(BuildReport(item, f)))]


(***************************************************************************)
(* page.tsx: submission log lines                                          *)
(***************************************************************************)
\* `[SUCCESS] Submitted: ${item}`
SuccessEntry(item) == [tag |-> "SUCCESS", item |-> item]
\* `[ERROR] Failed ${item}: ${JSON.stringify(result)}`
FailedEntry(item, result) ==
    [tag |-> "ERROR", kind |-> "Failed", item |-> item, detail |-> JSONstringify(result)]
\* `[ERROR] Network/Client Error ${item}: ${e.message}`
ClientErrorEntry(item, message) ==
    [tag |-> "ERROR", kind |-> "Network/Client Error", item |-> item, detail |-> message]
\* `[INFO] Waiting ${delayMs}ms before next submission... (${completed}/${total})`
InfoEntry(ms, completed, total) ==
    [tag |-> "INFO", delayMs |-> ms, completed |-> completed, total |-> total]
\* `[COMPLETE] Finished processing ${total} items. Success: ${n}`
CompleteEntry(total, n) == [tag |-> "COMPLETE", total |-> total, success |-> n]

\* the marker a target line may itself contain
SuccessMarker == "[SUCCESS]"

\* l.includes('[SUCCESS]')
IncludesSuccess(l) ==
    \/ l.tag = "SUCCESS"
    \/ l.tag \in {"SUCCESS", "ERROR"} /\ Includes(l.item, SuccessMarker)

\* logs.filter(l => l.includes('[SUCCESS]')).length
CountSuccess(ls) == Cardinality({i \in 1..Len(ls) : IncludesSuccess(ls[i])})

\* response.ok
ResponseOk(status) == status >= 200 /\ status <= 299

\* the try/catch around fetch and response.json(): the log line of one item
OutcomeEntry(item, outcome) ==
    IF outcome.kind = "reject"
    THEN ClientErrorEntry(item, outcome.message)
    ELSE IF ~outcome.body.parses
    THEN ClientErrorEntry(item, "Unexpected token")
    ELSE IF ResponseOk(outcome.status)
    THEN SuccessEntry(item)
    ELSE FailedEntry(item, outcome.body.value)


(***************************************************************************)
(* page.tsx: validation functions                                          *)
(***************************************************************************)
\* 25[0-5]|2[0-4][0-9]|[01]?[0-9][0-9]?
Octet(p) ==
    /\ Len(p) \in 1..3
    /\ AllIn(p, Digits)
    /\ Len(p) = 3 =>
          \/ p[1] \in {"0", "1"}
          \/ p[1] = "2" /\ p[2] \in {"0", "1", "2", "3", "4"}
          \/ p[1] = "2" /\ p[2] = "5" /\ p[3] \in {"0", "1", "2", "3", "4", "5"}

\* ipv4Regex.test(ip): four octets separated by dots
MatchesIpv4(ip) ==
    LET parts == Split(ip, ".") IN
    Len(parts) = 4 /\ \A i \in 1..4 : Octet(parts[i])

\* [0-9a-fA-F]{1,4}
Hextet(p) == Len(p) \in 1..4 /\ AllIn(p, HexDigits)

\* ipv6Regex.test(ip), its three alternatives:
\*   ^(h:){7}h$   ^::(h:){0,6}h$   ^(h:){1,7}:$
MatchesIpv6(ip) ==
    LET parts == Split(ip, ":")
        n == Len(parts)
    IN  \/ n = 8 /\ \A i \in 1..8 : Hextet(parts[i])
        \/ /\ n \in 3..9
           /\ parts[1] = <<>> /\ parts[2] = <<>>
           /\ \A i \in 3..n : Hextet(parts[i])
        \/ /\ n \in 3..9
           /\ parts[n] = <<>> /\ parts[n - 1] = <<>>
           /\ \A i \in 1..(n - 2) : Hextet(parts[i])

validateIpAddress(ip) == MatchesIpv4(ip) \/ MatchesIpv6(ip)

\* the characters a host may not contain, among those of the inputs
ForbiddenHostChars == {" ", "<", ">", "^", "|", "%"}

\* new URL(url) for an input without credentials, port or numeric host:
\* <<>> when it throws, else <<protocol>>.  The scheme is the letters up to
\* the first ':', lower-cased; for http and https the slashes after it are
\* skipped and the host that follows must be non-empty and well-formed.
ParseUrlProtocol(url) ==
    LET parts == Split(url, ":")
        scheme == ToLowerCase(parts[1])
        rest == SubSeq(url, Len(parts[1]) + 2, Len(url))
        RECURSIVE SkipSlashes(_)
        SkipSlashes(r) ==
            IF r # <<>> /\ Head(r) \in {"/", "\\"} THEN SkipSlashes(Tail(r)) ELSE r
        RECURSIVE HostOf(_)
        HostOf(r) ==
            IF r = <<>> \/ Head(r) \in {"/", "\\", "?", "#"} THEN <<>>
            ELSE <<Head(r)>> \o HostOf(Tail(r))
        host == HostOf(SkipSlashes(rest))
        http == <<"h", "t", "t", "p">>
    IN  IF Len(parts) < 2 \/ scheme = <<>> THEN <<>>
        ELSE IF ~(scheme[1] \in SeqToSet(Lower)
                  /\ AllIn(scheme, SeqToSet(Lower) \cup Digits \cup {"+", "-", "."}))
        THEN <<>>
        ELSE IF scheme \in {http, http \o <<"s">>}
        THEN IF host = <<>> \/ \E i \in 1..Len(host) : host[i] \in ForbiddenHostChars
             THEN <<>>
             ELSE <<scheme \o <<":">> >>
        ELSE <<scheme \o <<":">> >>

\* try { parsed.protocol === 'http:' || 'https:' } catch { return false }
validateUrl(url) ==
    LET p == ParseUrlProtocol(url) IN
    p # <<>> /\ p[1] \in {<<"h", "t", "t", "p", ":">>,
                          <<"h", "t", "t", "p", "s", ":">>}

\* uuidRegex.test(id): 8-4-4-4-12 hexadecimal digits
validateAzureSubscription(id) ==
    LET parts == Split(id, "-") IN
    /\ Len(parts) = 5
    /\ \A i \in 1..5 : AllIn(parts[i], HexDigits)
    /\ <<Len(parts[1]), Len(parts[2]), Len(parts[3]), Len(parts[4]), Len(parts[5])>>
          = <<8, 4, 4, 4, 12>>

DigitValue(c) == CHOOSE n \in 0..9 :
    <<"0", "1", "2", "3", "4", "5", "6", "7", "8", "9">>[n + 1] = c

\* the number a string of digits denotes
RECURSIVE DigitsValue(_)
DigitsValue(ds) ==
    IF ds = <<>> THEN 0
    ELSE 10 * DigitsValue(SubSeq(ds, 1, Len(ds) - 1)) + DigitValue(ds[Len(ds)])

\* parseInt(s, 10): <<>> is NaN.  Leading white space and a sign are
\* skipped, the longest prefix of digits is read, the rest is ignored.
parseInt(s) ==
    LET t == TrimStart(s)
        neg == t # <<>> /\ Head(t) = "-"
        u == IF t # <<>> /\ Head(t) \in {"+", "-"} THEN Tail(t) ELSE t
        RECURSIVE DigitPrefix(_)
        DigitPrefix(r) ==
            IF r # <<>> /\ Head(r) \in Digits
            THEN <<Head(r)>> \o DigitPrefix(Tail(r)) ELSE <<>>
        ds == DigitPrefix(u)
    IN  IF ds = <<>> THEN <<>>
        ELSE <<IF neg THEN 0 - DigitsValue(ds) ELSE DigitsValue(ds)>>

validatePort(port) ==
    LET portNum == parseInt(port) IN
    portNum # <<>> /\ portNum[1] >= 1 /\ portNum[1] <= 65535

validateEntry(entry, type) ==
    IF Trim(entry) = <<>> THEN FALSE
    ELSE CASE type = "IP Address" -> validateIpAddress(entry)
           [] type = "URL" -> validateUrl(entry)
           [] type = "Azure Subscription" -> validateAzureSubscription(entry)
           [] OTHER -> FALSE

\* faulty variant: the entries that fail validation are dropped from the list
BulkValidationEffect_DropInvalid(tt, text) ==
    IF tt = "" \/ Trim(text) = <<>>
    THEN [valid |-> 0, invalid |-> 0, entries |-> <<>>]
    ELSE LET entries == FilterNonEmpty(MapTrim(Split(text, "\n")))
             ok == {i \in 1..Len(entries) : validateEntry(entries[i], tt)}
         IN  [valid |-> Cardinality(ok),
              invalid |-> Len(entries) - Cardinality(ok),
              entries |-> SelectSeq(entries, LAMBDA e : validateEntry(e, tt))]

\* useEffect([bulkData, threatType]): the value given to setValidationResults
BulkValidationEffect(tt, text) ==
    IF tt = "" \/ Trim(text) = <<>>
    THEN [valid |-> 0, invalid |-> 0, entries |-> <<>>]
    ELSE LET entries == FilterNonEmpty(MapTrim(Split(text, "\n")))
             ok == {i \in 1..Len(entries) : validateEntry(entries[i], tt)}
         IN  [valid |-> Cardinality(ok),
              invalid |-> Len(entries) - Cardinality(ok),
              entries |-> entries]

\* useEffect([destinationIp]): <<>> is null
DestinationIpEffect(ip) ==
    IF Trim(ip) = <<>> THEN <<>> ELSE <<validateIpAddress(ip)>>

\* useEffect([destinationPort]): <<>> is null
DestinationPortEffect(port) ==
    IF Trim(port) = <<>> THEN <<>> ELSE <<validatePort(port)>>

(***************************************************************************)
(* page.tsx: Home() state after construction                               *)
(***************************************************************************)
NoNotification == [type |-> "none", message |-> ""]

NoRun == [incidentType |-> "", threatType |-> "",
          reporterName |-> <<>>, reporterEmail |-> <<>>,
          description |-> <<>>, timeZone |-> "GMT",
          isTest |-> FALSE, isAnonymous |-> FALSE,
          destinationIp |-> <<>>, destinationPort |-> <<>>,
          delayMs |-> 0, logs |-> <<>>,
          lines |-> <<>>, total |-> 0, completed |-> 0]

DefaultDelayMs == 1000

InitPage ==
    /\ isAuthenticated = FALSE
    /\ reporterName = <<>>
    /\ reporterEmail = <<>>
    /\ incidentType = ""
    /\ threatType = ""
    /\ availableThreatTypes = <<>>
    /\ description = <<>>
    /\ timeZone = "GMT"
    /\ bulkData = <<>>
    /\ destinationIp = <<>>
    /\ destinationPort = <<>>
    /\ isTest = FALSE
    /\ isAnonymous = FALSE
    /\ validationResults = [valid |-> 0, invalid |-> 0, entries |-> <<>>]
    /\ destinationIpValid = <<>>
    /\ destinationPortValid = <<>>
    /\ logs = <<>>
    /\ isSubmitting = FALSE
    /\ progress = 0
    /\ notification = NoNotification
    /\ delayMs = DefaultDelayMs
    /\ pc = "idle"
    /\ run = NoRun
    /\ inFlight = {}
    /\ dispatched = <<>>

runVars == <<logs, isSubmitting, progress, pc, run, inFlight, dispatched>>

(***************************************************************************)
(* page.tsx: form handlers and their effects                               *)
(***************************************************************************)
\* useEffect([accounts]): the signed-in account fills the read-only fields
AccountsEffect(account) ==
    /\ ~isAuthenticated
    /\ isAuthenticated' = TRUE
    /\ reporterEmail' = account.username
    /\ reporterName' = account.name
    /\ UNCHANGED <<incidentType, threatType, availableThreatTypes, description,
                   timeZone, bulkData, destinationIp, destinationPort, isTest,
                   isAnonymous, delayMs, notification>>
    /\ UNCHANGED <<validationResults, destinationIpValid, destinationPortValid>>
    /\ UNCHANGED runVars

\* faulty variant: the selection is kept when the incident type changes
ThreatTypeEffect_KeepSelection(it, tt) ==
    IF it # ""
    THEN [available |-> INCIDENT_THREAT_MAP[it], threatType |-> tt]
    ELSE [available |-> <<>>, threatType |-> tt]

\* useEffect([incidentType, threatType]) applied to the values it, tt
ThreatTypeEffect(it, tt) ==
    IF it # ""
    THEN [available |-> INCIDENT_THREAT_MAP[it],
          threatType |-> IF tt # "" /\ tt \notin SeqToSet(INCIDENT_THREAT_MAP[it])
                         THEN "" ELSE tt]
    ELSE [available |-> <<>>, threatType |-> ""]

\* <select> onChange: setIncidentType, then the effect
SetIncidentType(v) ==
    /\ isAuthenticated
    /\ incidentType' = v
    /\ availableThreatTypes' = ThreatTypeEffect(v, threatType).available
    /\ threatType' = ThreatTypeEffect(v, threatType).threatType
    /\ UNCHANGED <<isAuthenticated, reporterName, reporterEmail, description,
                   timeZone, bulkData, destinationIp, destinationPort, isTest,
                   isAnonymous, delayMs, notification>>
    /\ validationResults' =
          BulkValidationEffect(ThreatTypeEffect(v, threatType).threatType, bulkData)
    /\ UNCHANGED <<destinationIpValid, destinationPortValid>>
    /\ UNCHANGED runVars

\* <select disabled={!incidentType}> onChange: setThreatType, then the effect
SetThreatType(v) ==
    /\ isAuthenticated
    /\ incidentType # ""
    /\ v \in {""} \cup SeqToSet(availableThreatTypes)
    /\ threatType' = ThreatTypeEffect(incidentType, v).threatType
    /\ availableThreatTypes' = ThreatTypeEffect(incidentType, v).available
    /\ UNCHANGED <<isAuthenticated, reporterName, reporterEmail, incidentType,
                   description, timeZone, bulkData, destinationIp,
                   destinationPort, isTest, isAnonymous, delayMs,
                   notification>>
    /\ validationResults' =
          BulkValidationEffect(ThreatTypeEffect(incidentType, v).threatType, bulkData)
    /\ UNCHANGED <<destinationIpValid, destinationPortValid>>
    /\ UNCHANGED runVars

SetDescription(v) ==
    /\ isAuthenticated
    /\ description' = v
    /\ UNCHANGED <<isAuthenticated, reporterName, reporterEmail, incidentType,
                   threatType, availableThreatTypes, timeZone, bulkData,
                   destinationIp, destinationPort, isTest, isAnonymous,
                   delayMs, notification>>
    /\ UNCHANGED <<validationResults, destinationIpValid, destinationPortValid>>
    /\ UNCHANGED runVars

\* <textarea disabled={!threatType}>
SetBulkData(v) ==
    /\ isAuthenticated
    /\ threatType # ""
    /\ bulkData' = v
    /\ UNCHANGED <<isAuthenticated, reporterName, reporterEmail, incidentType,
                   threatType, availableThreatTypes, description, timeZone,
                   destinationIp, destinationPort, isTest, isAnonymous,
                   delayMs, notification>>
    /\ validationResults' = BulkValidationEffect(threatType, v)
    /\ UNCHANGED <<destinationIpValid, destinationPortValid>>
    /\ UNCHANGED runVars

\* rendered only for Brute Force / Denial of Service with IP Address
SetDestinationIp(v) ==
    /\ isAuthenticated
    /\ NeedsDestination(incidentType, threatType)
    /\ destinationIp' = v
    /\ UNCHANGED <<isAuthenticated, reporterName, reporterEmail, incidentType,
                   threatType, availableThreatTypes, description, timeZone,
                   bulkData, destinationPort, isTest, isAnonymous,
                   delayMs, notification>>
    /\ destinationIpValid' = DestinationIpEffect(v)
    /\ UNCHANGED <<validationResults, destinationPortValid>>
    /\ UNCHANGED runVars

SetDestinationPort(v) ==
    /\ isAuthenticated
    /\ NeedsDestination(incidentType, threatType)
    /\ destinationPort' = v
    /\ UNCHANGED <<isAuthenticated, reporterName, reporterEmail, incidentType,
                   threatType, availableThreatTypes, description, timeZone,
                   bulkData, destinationIp, isTest, isAnonymous,
                   delayMs, notification>>
    /\ destinationPortValid' = DestinationPortEffect(v)
    /\ UNCHANGED <<validationResults, destinationIpValid>>
    /\ UNCHANGED runVars

\* time zone <select> onChange
SetTimeZone(v) ==
    /\ isAuthenticated
    /\ timeZone' = v
    /\ UNCHANGED <<isAuthenticated, reporterName, reporterEmail, incidentType,
                   threatType, availableThreatTypes, description, bulkData,
                   destinationIp, destinationPort, isTest, isAnonymous,
                   delayMs, notification>>
    /\ UNCHANGED <<validationResults, destinationIpValid, destinationPortValid>>
    /\ UNCHANGED runVars

\* "Test Submission Mode" checkbox onChange
SetIsTest(v) ==
    /\ isAuthenticated
    /\ isTest' = v
    /\ UNCHANGED <<isAuthenticated, reporterName, reporterEmail, incidentType,
                   threatType, availableThreatTypes, description, timeZone,
                   bulkData, destinationIp, destinationPort, isAnonymous,
                   delayMs, notification>>
    /\ UNCHANGED <<validationResults, destinationIpValid, destinationPortValid>>
    /\ UNCHANGED runVars

\* "Anonymize" checkbox onChange
SetIsAnonymous(v) ==
    /\ isAuthenticated
    /\ isAnonymous' = v
    /\ UNCHANGED <<isAuthenticated, reporterName, reporterEmail, incidentType,
                   threatType, availableThreatTypes, description, timeZone,
                   bulkData, destinationIp, destinationPort, isTest,
                   delayMs, notification>>
    /\ UNCHANGED <<validationResults, destinationIpValid, destinationPortValid>>
    /\ UNCHANGED runVars

\* delay <input type="number"> onChange: setDelayMs(Number(e.target.value))
SetDelayMs(v) ==
    /\ isAuthenticated
    /\ delayMs' = v
    /\ UNCHANGED <<isAuthenticated, reporterName, reporterEmail, incidentType,
                   threatType, availableThreatTypes, description, timeZone,
                   bulkData, destinationIp, destinationPort, isTest,
                   isAnonymous, notification>>
    /\ UNCHANGED <<validationResults, destinationIpValid, destinationPortValid>>
    /\ UNCHANGED runVars

\* faulty variant: clearing the log ends the run
ClearLogs_EndsRun ==
    /\ isAuthenticated
    /\ Len(logs) > 0
    /\ logs' = <<>>
    /\ isSubmitting' = FALSE
    /\ pc' = "idle"
    /\ run' = NoRun
    /\ inFlight' = {}
    /\ dispatched' = <<>>
    /\ UNCHANGED formVars
    /\ UNCHANGED <<progress, notification>>

\* "Clear Logs", rendered while logs.length > 0
ClearLogs ==
    /\ isAuthenticated
    /\ Len(logs) > 0
    /\ logs' = <<>>
    /\ UNCHANGED formVars
    /\ UNCHANGED <<isSubmitting, progress, pc, run, inFlight, dispatched,
                   notification>>

\* the notification's close button
CloseNotification ==
    /\ isAuthenticated
    /\ notification # NoNotification
    /\ notification' = NoNotification
    /\ UNCHANGED formVars
    /\ UNCHANGED runVars

\* setTimeout(() => setNotification(null), 5000) fires.  The timer set with
\* the notification on display is pending for as long as that notification
\* is displayed; a timer that fires with no notification displayed changes
\* nothing.
NotificationTimeout ==
    /\ notification # NoNotification
    /\ notification' = NoNotification
    /\ UNCHANGED formVars
    /\ UNCHANGED runVars


(***************************************************************************)
(* page.tsx: handleSubmit                                                  *)
(***************************************************************************)
\* faulty variant: the check forgets the description
RequiredFieldsMissing_NoDescription ==
    \/ incidentType = ""
    \/ threatType = ""
    \/ reporterName = <<>>
    \/ reporterEmail = <<>>
    \/ bulkData = <<>>

\* if (!incidentType || !threatType || !reporterName || !reporterEmail ||
\*     !description || !bulkData)
RequiredFieldsMissing ==
    \/ incidentType = ""
    \/ threatType = ""
    \/ reporterName = <<>>
    \/ reporterEmail = <<>>
    \/ description = <<>>
    \/ bulkData = <<>>

\* if (Brute Force or Denial of Service, IP Address)
\*   if (!destinationIp || !destinationPort)
DestinationMissing ==
    /\ NeedsDestination(incidentType, threatType)
    /\ (destinationIp = <<>> \/ destinationPort = <<>>)

\* the values of the render the handler closes over, and its locals
Closure ==
    [incidentType |-> incidentType, threatType |-> threatType,
     reporterName |-> reporterName, reporterEmail |-> reporterEmail,
     description |-> description, timeZone |-> timeZone,
     isTest |-> isTest, isAnonymous |-> isAnonymous,
     destinationIp |-> destinationIp, destinationPort |-> destinationPort,
     delayMs |-> delayMs, logs |-> logs,
     lines |-> ParseLines(bulkData),
     total |-> Len(ParseLines(bulkData)),
     completed |-> 0]

\* first early return: one notification and its 5 s timer
HandleSubmitMissingFields ==
    /\ isAuthenticated
    /\ ~isSubmitting
    /\ RequiredFieldsMissing
    /\ notification' = [type |-> "error",
                        message |-> "Please fill in all required fields"]
    /\ UNCHANGED formVars
    /\ UNCHANGED runVars

\* second early return
HandleSubmitMissingDestination ==
    /\ isAuthenticated
    /\ ~isSubmitting
    /\ ~RequiredFieldsMissing
    /\ DestinationMissing
    /\ notification' = [type |-> "error",
                        message |-> "Destination IP and Port are required"]
    /\ UNCHANGED formVars
    /\ UNCHANGED runVars

\* faulty variant: the reports are sent without awaiting one another
HandleSubmitStart_AllAtOnce ==
    /\ isAuthenticated
    /\ ~isSubmitting
    /\ ~RequiredFieldsMissing
    /\ ~DestinationMissing
    /\ LET r == Closure IN
        IF r.total = 0
        THEN /\ logs' = <<CompleteEntry(r.total, CountSuccess(r.logs))>>
             /\ isSubmitting' = FALSE
             /\ pc' = "idle"
             /\ run' = NoRun
             /\ dispatched' = <<>>
             /\ inFlight' = {}
        ELSE /\ logs' = <<>>
             /\ isSubmitting' = TRUE
             /\ pc' = "fetching"
             /\ run' = r
             /\ dispatched' = [i \in 1..r.total |-> FetchRequest(r.lines[i], r)]
             /\ inFlight' = 1..r.total
    /\ UNCHANGED progress
    /\ UNCHANGED formVars
    /\ UNCHANGED notification

\* faulty variant: the submit button is not disabled during a run
HandleSubmitStart_WhileRunning ==
    /\ isAuthenticated
    /\ ~RequiredFieldsMissing
    /\ ~DestinationMissing
    /\ LET r == Closure IN
        IF r.total = 0
        THEN /\ logs' = <<CompleteEntry(r.total, CountSuccess(r.logs))>>
             /\ isSubmitting' = FALSE
             /\ pc' = "idle"
             /\ run' = NoRun
             /\ dispatched' = <<>>
             /\ inFlight' = {}
        ELSE /\ logs' = <<>>
             /\ isSubmitting' = TRUE
             /\ pc' = "fetching"
             /\ run' = r
             /\ dispatched' = <<FetchRequest(r.lines[1], r)>>
             /\ inFlight' = {1}
    /\ UNCHANGED progress
    /\ UNCHANGED formVars
    /\ UNCHANGED notification

\* setIsSubmitting(true); setLogs([]); the loop up to its first await
HandleSubmitStart ==
    /\ isAuthenticated
    /\ ~isSubmitting
    /\ ~RequiredFieldsMissing
    /\ ~DestinationMissing
    /\ LET r == Closure IN
        IF r.total = 0
        THEN /\ logs' = <<CompleteEntry(r.total, CountSuccess(r.logs))>>
             /\ isSubmitting' = FALSE
             /\ pc' = "idle"
             /\ run' = NoRun
             /\ dispatched' = <<>>
             /\ inFlight' = {}
        ELSE /\ logs' = <<>>
             /\ isSubmitting' = TRUE
             /\ pc' = "fetching"
             /\ run' = r
             /\ dispatched' = <<FetchRequest(r.lines[1], r)>>
             /\ inFlight' = {1}
    /\ UNCHANGED progress
    /\ UNCHANGED formVars
    /\ UNCHANGED notification

\* faulty variant: the wait line is logged after the last item too
FetchSettles_InfoAfterLast(outcome) ==
    /\ pc = "fetching"
    /\ inFlight # {}
    /\ LET completed == run.completed + 1
           item == run.lines[completed]
           logs1 == Append(logs, OutcomeEntry(item, outcome))
           logs2 == Append(logs1, InfoEntry(run.delayMs, completed, run.total))
       IN  /\ inFlight' = inFlight \ {completed}
           /\ progress' = RoundPercent(completed, run.total)
           /\ IF completed < run.total
              THEN /\ logs' = logs2
                   /\ pc' = "waiting"
                   /\ run' = [run EXCEPT !.completed = completed]
                   /\ UNCHANGED <<isSubmitting, dispatched>>
              ELSE /\ logs' = Append(logs2,
                                CompleteEntry(run.total, CountSuccess(run.logs)))
                   /\ pc' = "idle"
                   /\ run' = NoRun
                   /\ isSubmitting' = FALSE
                   /\ dispatched' = <<>>
    /\ UNCHANGED formVars
    /\ UNCHANGED notification

\* faulty variant: a failed dispatch leaves the loop
FetchSettles_HaltOnError(outcome) ==
    /\ pc = "fetching"
    /\ inFlight # {}
    /\ LET completed == run.completed + 1
           item == run.lines[completed]
           entry == OutcomeEntry(item, outcome)
           logs1 == Append(logs, entry)
       IN  /\ inFlight' = inFlight \ {completed}
           /\ progress' = RoundPercent(completed, run.total)
           /\ IF completed < run.total /\ entry.tag # "ERROR"
              THEN /\ logs' = Append(logs1,
                                InfoEntry(run.delayMs, completed, run.total))
                   /\ pc' = "waiting"
                   /\ run' = [run EXCEPT !.completed = completed]
                   /\ UNCHANGED <<isSubmitting, dispatched>>
              ELSE /\ logs' = Append(logs1,
                                CompleteEntry(run.total, CountSuccess(run.logs)))
                   /\ pc' = "idle"
                   /\ run' = NoRun
                   /\ isSubmitting' = FALSE
                   /\ dispatched' = <<>>
    /\ UNCHANGED formVars
    /\ UNCHANGED notification

\* faulty variant: no try/catch around the fetch; a rejected fetch or a body
\* that is not JSON ends the call where it throws
FetchSettles_Uncaught(outcome) ==
    /\ pc = "fetching"
    /\ inFlight # {}
    /\ LET completed == run.completed + 1
           item == run.lines[completed]
           logs1 == Append(logs, OutcomeEntry(item, outcome))
           thrown == \/ outcome.kind = "reject"
                     \/ outcome.kind = "response" /\ ~outcome.body.parses
       IN  /\ inFlight' = inFlight \ {completed}
           /\ IF thrown
              THEN /\ pc' = "idle"
                   /\ UNCHANGED <<logs, progress, run, isSubmitting, dispatched>>
              ELSE /\ progress' = RoundPercent(completed, run.total)
                   /\ IF completed < run.total
                      THEN /\ logs' = Append(logs1,
                                        InfoEntry(run.delayMs, completed, run.total))
                           /\ pc' = "waiting"
                           /\ run' = [run EXCEPT !.completed = completed]
                           /\ UNCHANGED <<isSubmitting, dispatched>>
                      ELSE /\ logs' = Append(logs1,
                                        CompleteEntry(run.total, CountSuccess(run.logs)))
                           /\ pc' = "idle"
                           /\ run' = NoRun
                           /\ isSubmitting' = FALSE
                           /\ dispatched' = <<>>
    /\ UNCHANGED formVars
    /\ UNCHANGED notification

\* the awaited fetch settles (resolves and its body is read, or rejects):
\* the rest of the iteration up to the next await or the end of the call
FetchSettles(outcome) ==
    /\ pc = "fetching"
    /\ inFlight # {}
    /\ LET completed == run.completed + 1
           item == run.lines[completed]
           logs1 == Append(logs, OutcomeEntry(item, outcome))
       IN  /\ inFlight' = inFlight \ {completed}
           /\ progress' = RoundPercent(completed, run.total)
           /\ IF completed < run.total
              THEN /\ logs' = Append(logs1,
                                InfoEntry(run.delayMs, completed, run.total))
                   /\ pc' = "waiting"
                   /\ run' = [run EXCEPT !.completed = completed]
                   /\ UNCHANGED <<isSubmitting, dispatched>>
              ELSE /\ logs' = Append(logs1,
                                CompleteEntry(run.total, CountSuccess(run.logs)))
                   /\ pc' = "idle"
                   /\ run' = NoRun
                   /\ isSubmitting' = FALSE
                   /\ dispatched' = <<>>
    /\ UNCHANGED formVars
    /\ UNCHANGED notification

\* faulty variant: the next report is built from the form as it is when the
\* timer fires
DelayElapses_ReadsForm ==
    /\ pc = "waiting"
    /\ LET k == run.completed + 1 IN
        /\ dispatched' = Append(dispatched, FetchRequest(run.lines[k], Closure))
        /\ inFlight' = inFlight \cup {k}
    /\ pc' = "fetching"
    /\ UNCHANGED <<logs, isSubmitting, progress, run>>
    /\ UNCHANGED formVars
    /\ UNCHANGED notification

\* setTimeout(resolve, delayMs) fires: the next iteration up to its fetch
DelayElapses ==
    /\ pc = "waiting"
    /\ LET k == run.completed + 1 IN
        /\ dispatched' = Append(dispatched, FetchRequest(run.lines[k], run))
        /\ inFlight' = inFlight \cup {k}
    /\ pc' = "fetching"
    /\ UNCHANGED <<logs, isSubmitting, progress, run>>
    /\ UNCHANGED formVars
    /\ UNCHANGED notification


(***************************************************************************)
(* POST /api/report (route handler, page.tsx lines 1286-1442)              *)
(***************************************************************************)
MSRC_ENDPOINT == "https://api.msrc.microsoft.com/report/v2.0/abuse"

VALID_INCIDENT_TYPES == {"Brute Force", "Denial of Service",
                         "Illegal/Violates the rights of others",
                         "Malware", "Phishing", "Spam"}

VALID_THREAT_TYPES == {"IP Address", "URL", "Azure Subscription"}

\* req.headers.get(name): <<>> is null, <<v>> the value
HeaderGet(headers, name) ==
    IF name \in DOMAIN headers THEN <<headers[name]>> ELSE <<>>

JUndefined == [t |-> "undefined"]

\* report.name
Field(report, name) == IF name \in DOMAIN report THEN report[name] ELSE JUndefined

\* !v, for a value whose string form has the empty string `empty`
Falsy(v, empty) ==
    \/ v.t \in {"undefined", "null"}
    \/ v.t = "str" /\ v.s = empty
    \/ v.t = "num" /\ v.n = 0
    \/ v.t = "bool" /\ ~v.b

\* /^\d{4}-\d{2}-\d{2}$/.test(s)
MatchesDate(s) ==
    /\ Len(s) = 10
    /\ \A i \in {1, 2, 3, 4, 6, 7, 9, 10} : s[i] \in Digits
    /\ s[5] = "-"
    /\ s[8] = "-"

\* /^\d{2}:\d{2}:\d{2}$/.test(s)
MatchesTime(s) ==
    /\ Len(s) = 8
    /\ \A i \in {1, 2, 4, 5, 7, 8} : s[i] \in Digits
    /\ s[3] = ":"
    /\ s[6] = ":"

validateReportBody(body) ==
    IF Falsy(body, <<>>) \/ body.t # "obj"
    THEN [valid |-> FALSE, error |-> "Invalid request body"]
    ELSE LET report == body.f
             it == Field(report, "incidentType")
             tt == Field(report, "threatType")
             em == Field(report, "reporterEmail")
             nm == Field(report, "reporterName")
             nt == Field(report, "reportNotes")
             dt == Field(report, "date")
             tm == Field(report, "time")
    IN  IF Falsy(it, "") \/ it.t # "str" \/ it.s \notin VALID_INCIDENT_TYPES
        THEN [valid |-> FALSE, error |-> "Invalid or missing incidentType"]
        ELSE IF Falsy(tt, "") \/ tt.t # "str" \/ tt.s \notin VALID_THREAT_TYPES
        THEN [valid |-> FALSE, error |-> "Invalid or missing threatType"]
        ELSE IF Falsy(em, <<>>) \/ em.t # "str" \/ ~Includes(em.s, "@")
        THEN [valid |-> FALSE, error |-> "Invalid or missing reporterEmail"]
        ELSE IF Falsy(nm, <<>>) \/ nm.t # "str" \/ Len(nm.s) < 1
        THEN [valid |-> FALSE, error |-> "Invalid or missing reporterName"]
        ELSE IF Falsy(nt, <<>>) \/ nt.t # "str"
        THEN [valid |-> FALSE, error |-> "Invalid or missing reportNotes"]
        ELSE IF Falsy(dt, <<>>) \/ dt.t # "str" \/ ~MatchesDate(dt.s)
        THEN [valid |-> FALSE, error |-> "Invalid date format"]
        ELSE IF Falsy(tm, <<>>) \/ tm.t # "str" \/ ~MatchesTime(tm.s)
        THEN [valid |-> FALSE, error |-> "Invalid time format"]
        ELSE [valid |-> TRUE, error |-> ""]

Bearer == <<"B", "e", "a", "r", "e", "r", " ">>

\* faulty variant: only the length is checked
validateAuthHeader_AnyScheme(authHeader) ==
    IF authHeader = <<>> \/ authHeader = << <<>> >> THEN FALSE
    ELSE Len(authHeader[1]) > 10

validateAuthHeader(authHeader) ==
    IF authHeader = <<>> \/ authHeader = << <<>> >> THEN FALSE
    ELSE StartsWith(authHeader[1], Bearer) /\ Len(authHeader[1]) > 10

\* faulty variant: the parsed upstream body is returned with the error
SanitizedError_Leak(status, jsonData) ==
    JObj([error |-> JStr("Failed to submit report"),
          status |-> JNum(status),
          details |-> jsonData])

\* "Return sanitized error to client": jsonData goes to console.error only
SanitizedError(status, jsonData) ==
    JObj([error |-> JStr("Failed to submit report"), status |-> JNum(status)])

\* the handler applied to a request and to what the upstream call does:
\* the response, and the request forwarded upstream (<<>> if none)
POST(authHeader, bodyText, upstream) ==
    IF ~validateAuthHeader(authHeader)
    THEN [status |-> 401,
          body |-> JObj([error |-> JStr("Unauthorized"),
                         message |-> JStr("Valid authorization token required")]),
          forwarded |-> <<>>]
    ELSE IF ~bodyText.parses
    THEN [status |-> 400,
          body |-> JObj([error |-> JStr("Bad Request"),
                         message |-> JStr("Invalid JSON in request body")]),
          forwarded |-> <<>>]
    ELSE IF ~validateReportBody(bodyText.value).valid
    THEN [status |-> 400,
          body |-> JObj([error |-> JStr("Bad Request"),
                         message |-> JStr(validateReportBody(bodyText.value).error)]),
          forwarded |-> <<>>]
    ELSE LET forwarded ==
                <<[url |-> MSRC_ENDPOINT,
                   method |-> "POST",
                   headers |-> ("Content-Type" :> "application/json"
                                @@ "Authorization" :> authHeader[1]),
                   body |-> JSONstringify(bodyText.value)]>>
         IN  CASE upstream.kind = "timeout" ->
                    [status |-> 504,
                     body |-> JObj([error |-> JStr("Request timeout")]),
                     forwarded |-> forwarded]
               [] upstream.kind = "error" ->
                    [status |-> 500,
                     body |-> JObj([error |-> JStr("Internal Server Error")]),
                     forwarded |-> forwarded]
               [] OTHER ->
                    LET jsonData == IF upstream.text.parses
                                    THEN upstream.text.value
                                    ELSE JObj([message |-> upstream.text.value])
                    IN  IF ~ResponseOk(upstream.status)
                        THEN [status |-> upstream.status,
                              body |-> SanitizedError(upstream.status, jsonData),
                              forwarded |-> forwarded]
                        ELSE [status |-> 200,
                              body |-> jsonData,
                              forwarded |-> forwarded]

InitGateway == gwExchange = <<>> /\ secExchange = <<>>

\* one request handled
HandlePost(authHeader, bodyText, upstream) ==
    /\ gwExchange' = <<[authHeader |-> authHeader,
                        body |-> bodyText,
                        upstream |-> upstream,
                        response |-> POST(authHeader, bodyText, upstream)]>>
    /\ UNCHANGED <<secExchange, pageVars, mwVars>>

(***************************************************************************)
(* GET /api/security/cve/[id] and GET /api/security/cvrf/[id]              *)
(* (route handlers, page.tsx lines 1076-1285)                              *)
(***************************************************************************)
MSRC_CVRF_BASE == "https://api.msrc.microsoft.com/cvrf/v3.0"

JArr(a) == [t |-> "arr", a |-> a]

\* the characters encodeURIComponent leaves as they are
UriUnreserved ==
    SeqToSet(Lower) \cup SeqToSet(Upper) \cup Digits
        \cup {"-", "_", ".", "!", "~", "*", "'", "(", ")"}

\* encodeURIComponent(s), for the characters of the identifiers below
RECURSIVE encodeURIComponent(_)
encodeURIComponent(s) ==
    IF s = <<>> THEN <<>>
    ELSE (CASE Head(s) \in UriUnreserved -> <<Head(s)>>
            [] Head(s) = " " -> <<"%", "2", "0">>
            [] Head(s) = "/" -> <<"%", "2", "F">>
            [] Head(s) = "\n" -> <<"%", "0", "A">>)
         \o encodeURIComponent(Tail(s))

\* faulty variant: the pattern is not anchored at the end
MatchesCvePattern_Unanchored(id) ==
    /\ Len(id) >= 13
    /\ ToUpperCase(SubSeq(id, 1, 4)) = <<"C", "V", "E", "-">>
    /\ AllIn(SubSeq(id, 5, 8), Digits)
    /\ id[9] = "-"
    /\ AllIn(SubSeq(id, 10, 13), Digits)

\* /^CVE-\d{4}-\d{4,}$/i.test(id)
MatchesCvePattern(id) ==
    /\ Len(id) >= 13
    /\ ToUpperCase(SubSeq(id, 1, 4)) = <<"C", "V", "E", "-">>
    /\ AllIn(SubSeq(id, 5, 8), Digits)
    /\ id[9] = "-"
    /\ AllIn(SubSeq(id, 10, Len(id)), Digits)

MonthAbbreviations ==
    {<<"j", "a", "n">>, <<"f", "e", "b">>, <<"m", "a", "r">>, <<"a", "p", "r">>,
     <<"m", "a", "y">>, <<"j", "u", "n">>, <<"j", "u", "l">>, <<"a", "u", "g">>,
     <<"s", "e", "p">>, <<"o", "c", "t">>, <<"n", "o", "v">>, <<"d", "e", "c">>}

\* /^\d{4}-(Jan|Feb|Mar|Apr|May|Jun|Jul|Aug|Sep|Oct|Nov|Dec)$/i.test(id)
MatchesCvrfPattern(id) ==
    /\ Len(id) = 8
    /\ AllIn(SubSeq(id, 1, 4), Digits)
    /\ id[5] = "-"
    /\ ToLowerCase(SubSeq(id, 6, 8)) \in MonthAbbreviations

\* fetch(apiUrl, {method: 'GET', headers: {'Accept': 'application/json'}})
SecurityFetch(path, idSegment) ==
    [base |-> MSRC_CVRF_BASE, path |-> path, id |-> idSegment,
     method |-> "GET", headers |-> ("Accept" :> "application/json")]

\* the part of both handlers after the fetch is issued: the 30 s abort, a
\* failed call, a non-2xx answer, a body response.json() cannot read; for a
\* 2xx answer with a JSON body, `data` holds the parsed body
SecurityAnswer(upstream, notFound, failed) ==
    CASE upstream.kind = "timeout" ->
            [status |-> 504, data |-> <<>>,
             body |-> JObj([error |-> JStr("Request timeout")])]
      [] upstream.kind = "error" ->
            [status |-> 500, data |-> <<>>,
             body |-> JObj([error |-> JStr("Internal Server Error")])]
      [] OTHER ->
            IF ~ResponseOk(upstream.status)
            THEN IF upstream.status = 404
                 THEN [status |-> 404, data |-> <<>>, body |-> notFound]
                 ELSE [status |-> upstream.status, data |-> <<>>,
                       body |-> JObj([error |-> JStr(failed),
                                      status |-> JNum(upstream.status)])]
            ELSE IF ~upstream.text.parses
            THEN [status |-> 500, data |-> <<>>,
                  body |-> JObj([error |-> JStr("Internal Server Error")])]
            ELSE [status |-> 200, data |-> <<upstream.text.value>>,
                  body |-> upstream.text.value]

\* GET /api/security/cve/[id]: the response and the request fetched
\* upstream (<<>> if none)
GetCve(id, upstream) ==
    IF ~MatchesCvePattern(id)
    THEN [status |-> 400,
          body |-> JObj([error |-> JStr("Invalid CVE ID format"),
                         message |-> JStr("CVE ID must be in format CVE-yyyy-nnnnn")]),
          fetched |-> <<>>]
    ELSE LET normalizedCVE == ToUpperCase(id)
             Enhanced(data) ==
                IF data.t \in {"null", "undefined"}
                THEN [status |-> 500,
                      body |-> JObj([error |-> JStr("Internal Server Error")])]
                ELSE LET f == IF data.t = "obj" THEN data.f ELSE <<>>
                         value == Field(f, "value")
                         isArr == value.t = "arr"
                     IN  [status |-> 200,
                          body |-> JObj(f @@
                            [cve |-> JStr(normalizedCVE),
                             updates |-> IF Falsy(value, <<>>) THEN JArr(<<>>)
                                         ELSE value,
                             totalUpdates |-> IF isArr THEN JNum(Len(value.a))
                                              ELSE IF value.t = "str"
                                              THEN JNum(Len(value.s))
                                              ELSE JNum(0)])]
             a == SecurityAnswer(upstream,
                     JObj([error |-> JStr("CVE not found"),
                           cve |-> JStr(normalizedCVE)]),
                     "Failed to fetch CVE data")
             r == IF a.data # <<>> THEN Enhanced(a.data[1]) ELSE a
         IN  [status |-> r.status, body |-> r.body,
              fetched |-> <<SecurityFetch("updates",
                                          encodeURIComponent(normalizedCVE))>>]

\* GET /api/security/cvrf/[id]
GetCvrf(id, upstream) ==
    IF ~MatchesCvrfPattern(id)
    THEN [status |-> 400,
          body |-> JObj([error |-> JStr("Invalid CVRF document ID format"),
                         message |-> JStr("ID must be in format yyyy-mmm")]),
          fetched |-> <<>>]
    ELSE LET a == SecurityAnswer(upstream,
                     JObj([error |-> JStr("CVRF document not found"),
                           id |-> JStr(id)]),
                     "Failed to fetch CVRF document")
         IN  [status |-> a.status, body |-> a.body,
              fetched |-> <<SecurityFetch("cvrf", encodeURIComponent(id))>>]

\* one request handled by either route
HandleGetCve(id, upstream) ==
    /\ secExchange' = <<[route |-> "cve", id |-> id, upstream |-> upstream,
                         response |-> GetCve(id, upstream)]>>
    /\ UNCHANGED <<gwExchange, pageVars, mwVars>>

HandleGetCvrf(id, upstream) ==
    /\ secExchange' = <<[route |-> "cvrf", id |-> id, upstream |-> upstream,
                         response |-> GetCvrf(id, upstream)]>>
    /\ UNCHANGED <<gwExchange, pageVars, mwVars>>

(***************************************************************************)
(* GET /api/security/updates (route handler, page.tsx lines 900-1074)      *)
(***************************************************************************)
\* the two filters: `search` in DocumentTitle, ID or Alias without regard to
\* case, `yearFilter` as a prefix of ID; an empty parameter filters nothing
UpdatesFilter(updates, search, yearFilter) ==
    LET includes(s, sub) ==
            \E i \in 1..(Len(s) - Len(sub) + 1) : SubSeq(s, i, i + Len(sub) - 1) = sub
        has(u, name, sub) ==
            /\ Field(u.f, name).t = "str"
            /\ includes(ToLowerCase(Field(u.f, name).s), sub)
        searched ==
            IF search = <<>> THEN updates
            ELSE SelectSeq(updates, LAMBDA u :
                    \/ has(u, "DocumentTitle", ToLowerCase(search))
                    \/ has(u, "ID", ToLowerCase(search))
                    \/ has(u, "Alias", ToLowerCase(search)))
    IN  IF yearFilter = <<>> THEN searched
        ELSE SelectSeq(searched, LAMBDA u :
                /\ Field(u.f, "ID").t = "str"
                /\ StartsWith(Field(u.f, "ID").s, yearFilter))

\* the sign of the comparator passed to updates.sort for the field and order
\* given.  new Date(s).getTime() of a yyyy-mm-dd string is replaced by a
\* number that grows with it, and is NaN (<<>>) for any other string; a
\* comparator result of NaN counts as 0.  localeCompare orders "-" before
\* the digits before the letters, letters by the alphabet first and lower
\* case before upper case second.
UpdatesCompare(a, b, field, order) ==
    LET spelling == [ID |-> <<"I", "D">>,
                     Alias |-> <<"A", "l", "i", "a", "s">>,
                     DocumentTitle |-> <<"D", "o", "c", "u", "m", "e", "n", "t", "T", "i", "t", "l", "e">>,
                     CurrentReleaseDate |-> <<"C", "u", "r", "r", "e", "n", "t", "R", "e", "l", "e", "a", "s", "e", "D", "a", "t", "e">>]
        name == IF \E k \in DOMAIN spelling : spelling[k] = field
                THEN CHOOSE k \in DOMAIN spelling : spelling[k] = field
                ELSE "?"
        aVal == Field(a.f, name)
        bVal == Field(b.f, name)
        getTime(s) ==
            IF MatchesDate(s)
            THEN <<(DigitsValue(SubSeq(s, 1, 4)) * 12 + DigitsValue(SubSeq(s, 6, 7))) * 31
                      + DigitsValue(SubSeq(s, 9, 10))>>
            ELSE <<>>
        sign(n) == IF n > 0 THEN 1 ELSE IF n < 0 THEN 0 - 1 ELSE 0
        alphabet == <<"-">> \o [i \in 1..10 |-> CHOOSE c \in Digits : DigitValue(c) = i - 1]
                        \o Lower
        rank(c) == CHOOSE i \in 1..Len(alphabet) : alphabet[i] = c
        RECURSIVE lex(_, _)
        lex(s, t) ==
            IF s = <<>> /\ t = <<>> THEN 0
            ELSE IF s = <<>> THEN 0 - 1
            ELSE IF t = <<>> THEN 1
            ELSE IF Head(s) # Head(t) THEN sign(Head(s) - Head(t))
            ELSE lex(Tail(s), Tail(t))
        primary(s) == [i \in 1..Len(s) |-> 2 * rank(ToLowerCase(<<s[i]>>)[1])]
        tertiary(s) == [i \in 1..Len(s) |->
                          primary(s)[i] + (IF s[i] \in SeqToSet(Upper) THEN 1 ELSE 0)]
        localeCompare(s, t) ==
            IF lex(primary(s), primary(t)) # 0 THEN lex(primary(s), primary(t))
            ELSE lex(tertiary(s), tertiary(t))
    IN  IF aVal.t \in {"null", "undefined"} THEN 1
        ELSE IF bVal.t \in {"null", "undefined"} THEN 0 - 1
        ELSE IF \E i \in 1..(Len(field) - 3) : SubSeq(field, i, i + 3) = <<"D", "a", "t", "e">>
        THEN LET aDate == getTime(aVal.s)
                 bDate == getTime(bVal.s)
             IN  IF aDate = <<>> \/ bDate = <<>> THEN 0
                 ELSE IF order = <<"d", "e", "s", "c">>
                 THEN sign(bDate[1] - aDate[1]) ELSE sign(aDate[1] - bDate[1])
        ELSE IF order = <<"d", "e", "s", "c">>
        THEN 0 - localeCompare(aVal.s, bVal.s) ELSE localeCompare(aVal.s, bVal.s)

\* faulty variant: the page is cut before the list is sorted
SortUpdates_Unsorted(updates, field, order) == updates

\* updates.sort(comparator): the sort is stable, an element goes after the
\* elements that do not compare greater than it
RECURSIVE SortUpdates(_, _, _)
SortUpdates(updates, field, order) ==
    IF updates = <<>> THEN <<>>
    ELSE LET n == Len(updates)
             x == updates[n]
             front == SortUpdates(SubSeq(updates, 1, n - 1), field, order)
             keep == {i \in 1..Len(front) :
                        UpdatesCompare(front[i], x, field, order) > 0}
             at == IF keep = {} THEN Len(front) + 1
                   ELSE CHOOSE i \in keep : \A j \in keep : i <= j
         IN  SubSeq(front, 1, at - 1) \o <<x>> \o SubSeq(front, at, Len(front))

\* GET /api/security/updates with the query parameters q (a function from
\* the names present to their values): the response and the request
\* fetched upstream.  A parameter that is absent and one that is empty are
\* both falsy.  An upstream request for the whole list has the id <<>>.
GetUpdates(q, upstream) ==
    LET get(name) == IF name \in DOMAIN q THEN q[name] ELSE <<>>
        or(x, y) == IF x # <<>> THEN x ELSE y
        key == or(get("year"), or(get("cve"), get("id")))
        fetched == <<SecurityFetch("updates", encodeURIComponent(key))>>
        a == SecurityAnswer(upstream,
                JObj([error |-> JStr("Failed to fetch security updates"),
                      status |-> JNum(404)]),
                "Failed to fetch security updates")
        internal == [status |-> 500,
                     body |-> JObj([error |-> JStr("Internal Server Error")]),
                     fetched |-> fetched]
    IN  IF a.data = <<>>
        THEN [status |-> a.status, body |-> a.body, fetched |-> fetched]
        ELSE IF a.data[1].t \in {"null", "undefined"}
        THEN internal
        ELSE
        LET data == a.data[1]
            f == IF data.t = "obj" THEN data.f ELSE <<>>
            value == Field(f, "value")
        IN  IF ~Falsy(value, <<>>) /\ value.t # "arr"
            THEN internal
            ELSE
            LET all == IF Falsy(value, <<>>) THEN <<>> ELSE value.a
                filtered == UpdatesFilter(all, get("search"), get("yearFilter"))
                totalCount == Len(filtered)
                orderby == or(get("orderby"), get("$orderby"))
                parts == Split(orderby, " ")
                order == or(IF Len(parts) >= 2 THEN parts[2] ELSE <<>>,
                            or(get("order"), <<"d", "e", "s", "c">>))
                sorted ==
                    IF orderby # <<>>
                    THEN SortUpdates(filtered, parts[1], order)
                    ELSE SortUpdates(filtered, <<"C", "u", "r", "r", "e", "n", "t", "R", "e", "l", "e", "a", "s", "e", "D", "a", "t", "e">>,
                                     <<"d", "e", "s", "c">>)
                skip == parseInt(or(get("skip"), or(get("$skip"), <<"0">>)))
                top == parseInt(or(get("top"), or(get("$top"), <<"5", "0">>)))
                n == Len(sorted)
                clamp(i) == IF i < 0 THEN (IF n + i < 0 THEN 0 ELSE n + i)
                            ELSE IF i > n THEN n ELSE i
                from == IF skip = <<>> THEN 0 ELSE clamp(skip[1])
                to == IF skip = <<>> \/ top = <<>> THEN 0 ELSE clamp(skip[1] + top[1])
                page == SubSeq(sorted, from + 1, to)
            IN  [status |-> 200,
                 body |-> JObj([value |-> JArr(page), totalCount |-> JNum(totalCount)]
                               @@ f),
                 fetched |-> fetched]

HandleGetUpdates(q, upstream) ==
    /\ secExchange' = <<[route |-> "updates", q |-> q, upstream |-> upstream,
                         response |-> GetUpdates(q, upstream)]>>
    /\ UNCHANGED <<gwExchange, pageVars, mwVars>>

(***************************************************************************)
(* middleware.ts                                                           *)
(***************************************************************************)
RATE_LIMIT_WINDOW == 60000

MAX_REQUESTS_PER_WINDOW == 30

\* rateLimitMap.size > 10000
CleanupThreshold == 10000

Unknown == <<"u", "n", "k", "n", "o", "w", "n">>

\* forwarded?.split(',')[0]?.trim() || 'unknown'
getRateLimitKey(headers) ==
    LET forwarded == HeaderGet(headers, "x-forwarded-for")
        ip == IF forwarded = <<>> THEN <<>>
              ELSE Trim(Split(forwarded[1], ",")[1])
    IN  IF ip = <<>> THEN Unknown ELSE ip

\* faulty variant: the loop deletes every entry made before now
Cleanup_DropsLive(map, t) ==
    IF Len(map) > CleanupThreshold
    THEN SelectSeq(map, LAMBDA e : ~(e.timestamp < t))
    ELSE map

\* the cleanup loop: delete the entries older than the window
Cleanup(map, t) ==
    IF Len(map) > CleanupThreshold
    THEN SelectSeq(map, LAMBDA e : ~(e.timestamp < t - RATE_LIMIT_WINDOW))
    ELSE map

\* isRateLimited(key) at Date.now() = t on the map `map`, the entries of
\* the Map in insertion order: the value returned and the map afterwards
isRateLimited(map, key, t) ==
    LET at(m) == IF \E i \in 1..Len(m) : m[i].key = key
                 THEN CHOOSE i \in 1..Len(m) : m[i].key = key
                 ELSE 0
        entry == at(map)
        cleaned == Cleanup(map, t)
        kept == at(cleaned)
    IN  IF entry = 0 \/ t - map[entry].timestamp > RATE_LIMIT_WINDOW
        THEN [limited |-> FALSE,
              map |-> IF kept = 0
                      THEN Append(cleaned, [key |-> key, count |-> 1, timestamp |-> t])
                      ELSE [cleaned EXCEPT ![kept] =
                                [key |-> key, count |-> 1, timestamp |-> t]]]
        ELSE IF map[entry].count >= MAX_REQUESTS_PER_WINDOW
        THEN [limited |-> TRUE, map |-> cleaned]
        ELSE [limited |-> FALSE,
              map |-> IF kept = 0 THEN cleaned
                      ELSE [cleaned EXCEPT ![kept].count = @ + 1]]

\* isRateLimited without its cleanup loop (lines 21-30)
isRateLimitedWithoutCleanup(map, key, t) ==
    LET entry == IF \E i \in 1..Len(map) : map[i].key = key
                 THEN CHOOSE i \in 1..Len(map) : map[i].key = key
                 ELSE 0
    IN  IF entry = 0 \/ t - map[entry].timestamp > RATE_LIMIT_WINDOW
        THEN [limited |-> FALSE,
              map |-> IF entry = 0
                      THEN Append(map, [key |-> key, count |-> 1, timestamp |-> t])
                      ELSE [map EXCEPT ![entry] =
                                [key |-> key, count |-> 1, timestamp |-> t]]]
        ELSE IF map[entry].count >= MAX_REQUESTS_PER_WINDOW
        THEN [limited |-> TRUE, map |-> map]
        ELSE [limited |-> FALSE, map |-> [map EXCEPT ![entry].count = @ + 1]]

ApiPrefix == <<"/", "a", "p", "i", "/">>

\* config.matcher: '/api/:path*'
MatcherMatches(pathname) ==
    pathname = <<"/", "a", "p", "i">> \/ StartsWith(pathname, ApiPrefix)

\* middleware(request) at Date.now() = t: the response and the map afterwards
middleware(map, request, t) ==
    IF StartsWith(request.pathname, ApiPrefix)
    THEN LET r == isRateLimited(map, getRateLimitKey(request.headers), t) IN
         IF r.limited
         THEN [response |-> [kind |-> "json", status |-> 429,
                             headers |-> ("Retry-After" :> "60")],
               map |-> r.map]
         ELSE [response |-> [kind |-> "next", status |-> 200,
                             headers |-> ("X-Content-Type-Options" :> "nosniff"
                                          @@ "X-Frame-Options" :> "DENY")],
               map |-> r.map]
    ELSE [response |-> [kind |-> "next", status |-> 200, headers |-> <<>>],
          map |-> map]

InitLimiter ==
    /\ rateLimitMap = <<>>
    /\ now = 0
    /\ mwExchange = <<>>
    /\ admitted = <<>>
    /\ uncleaned = <<>>

\* the admission times of key k that lie in the 60 s before t
Recent(hist, k, t) ==
    IF k \in DOMAIN hist
    THEN SelectSeq(hist[k], LAMBDA s : t - s <= RATE_LIMIT_WINDOW)
    ELSE <<>>

\* what a request arriving at time t >= now does to the middleware
MiddlewareEffect(request, t) ==
    /\ t >= now
    /\ MatcherMatches(request.pathname)
    /\ LET key == getRateLimitKey(request.headers)
           m == middleware(rateLimitMap, request, t)
           isApi == StartsWith(request.pathname, ApiPrefix)
           pruned == [k \in DOMAIN admitted |-> Recent(admitted, k, t)]
       IN  /\ now' = t
           /\ rateLimitMap' = m.map
           /\ mwExchange' = <<[key |-> key, pathname |-> request.pathname,
                               time |-> t, response |-> m.response]>>
           /\ admitted' = IF isApi /\ m.response.status # 429
                          THEN (key :> Append(Recent(admitted, key, t), t)) @@ pruned
                          ELSE pruned
           /\ uncleaned' = IF isApi
                           THEN isRateLimitedWithoutCleanup(uncleaned, key, t).map
                           ELSE uncleaned

\* a request arrives at time t >= now and passes through the middleware
Middleware(request, t) ==
    /\ MiddlewareEffect(request, t)
    /\ UNCHANGED <<pageVars, gwVars>>

(***************************************************************************)
(* Specification of the page: the inputs the handlers are driven with      *)
(***************************************************************************)
Accounts == {[name |-> <<"A">>, username |-> <<"a", "@", "x">>],
             [name |-> <<>>, username |-> <<"a", "@", "x">>]}

IncidentInputs == {"", "Phishing", "Brute Force"}

DescriptionInputs == {<<>>, <<"d">>}

\* the texts typed into the bulk field; MaxEntries bounds their entry count
MaxEntries == 2

AllBulkTexts == {<<>>,
                 <<"a">>,
                 <<"a", "\n", "b">>,
                 <<" ", "b", "\n", "\n", "a", " ">>,
                 <<"a", "\n", "b", "\n", "a">>,
                 <<"b", "\n", " ", "\n", "a", "\n", "a", "\n", "b">>}

BulkTexts == {t \in AllBulkTexts : Len(ParseLines(t)) <= MaxEntries}

DestinationIps == {<<>>, <<"9">>}

DestinationPorts == {<<>>, <<"8">>}

FetchOutcomes ==
    {[kind |-> "reject", message |-> "Failed to fetch"],
     [kind |-> "response", status |-> 200,
      body |-> JsonText(JObj([id |-> JStr("r")]))],
     [kind |-> "response", status |-> 401,
      body |-> JsonText(JObj([error |-> JStr("Unauthorized")]))],
     [kind |-> "response", status |-> 502,
      body |-> NotJsonText("<html>")]}

Init == InitPage /\ InitGateway /\ InitLimiter

\* The form is edited between runs; Clear Logs, the notification and the
\* run itself are driven in every state.
Next ==
    \/ \E a \in Accounts : AccountsEffect(a) /\ UNCHANGED <<gwVars, mwVars>>
    \/ \E v \in IncidentInputs :
            ~isSubmitting /\ SetIncidentType(v) /\ UNCHANGED <<gwVars, mwVars>>
    \/ \E v \in THREAT_TYPES \cup {""} :
            ~isSubmitting /\ SetThreatType(v) /\ UNCHANGED <<gwVars, mwVars>>
    \/ \E v \in DescriptionInputs :
            ~isSubmitting /\ SetDescription(v) /\ UNCHANGED <<gwVars, mwVars>>
    \/ \E v \in BulkTexts :
            ~isSubmitting /\ SetBulkData(v) /\ UNCHANGED <<gwVars, mwVars>>
    \/ \E v \in DestinationIps :
            ~isSubmitting /\ SetDestinationIp(v) /\ UNCHANGED <<gwVars, mwVars>>
    \/ \E v \in DestinationPorts :
            ~isSubmitting /\ SetDestinationPort(v) /\ UNCHANGED <<gwVars, mwVars>>
    \/ ClearLogs /\ UNCHANGED <<gwVars, mwVars>>
    \/ CloseNotification /\ UNCHANGED <<gwVars, mwVars>>
    \/ NotificationTimeout /\ UNCHANGED <<gwVars, mwVars>>
    \/ HandleSubmitMissingFields /\ UNCHANGED <<gwVars, mwVars>>
    \/ HandleSubmitMissingDestination /\ UNCHANGED <<gwVars, mwVars>>
    \/ HandleSubmitStart /\ UNCHANGED <<gwVars, mwVars>>
    \/ \E o \in FetchOutcomes : FetchSettles(o) /\ UNCHANGED <<gwVars, mwVars>>
    \/ DelayElapses /\ UNCHANGED <<gwVars, mwVars>>

Spec == Init /\ [][Next]_vars


(***************************************************************************)
(* Properties of the submission run                                        *)
(***************************************************************************)
\* the target a dispatched request reports
TargetOf(req) ==
    LET f == req.body.value.f IN
    IF "sourceUrl" \in DOMAIN f THEN f.sourceUrl.s
    ELSE IF "sourceIp" \in DOMAIN f THEN f.sourceIp.s
    ELSE f.reportedSubscriptionId.s

IsOutcomeTag(tag) == tag \in {"SUCCESS", "ERROR"}

CountTag(ls, tag) == Cardinality({i \in 1..Len(ls) : ls[i].tag = tag})

\* the step in which a run with at least one entry ends
RunEnds == isSubmitting /\ ~isSubmitting'

\* the log of the run is intact: it holds every line appended since the run
\* started (Clear Logs empties a non-empty log, so it shortens it)
LogIntact == Len(logs) = 2 * run.completed

C1_Inv ==
    /\ Cardinality(inFlight) <= 1
    /\ pc = "fetching" => inFlight = {Len(dispatched)}
    /\ pc # "fetching" => inFlight = {}
    /\ isSubmitting =>
        /\ Len(dispatched) = run.completed + (IF pc = "fetching" THEN 1 ELSE 0)
        /\ run.lines = ParseLines(bulkData)
        /\ \A i \in 1..Len(dispatched) :
              /\ dispatched[i].url = "/api/report"
              /\ TargetOf(dispatched[i]) = ParseLines(bulkData)[i]

C1_Step ==
    (Len(dispatched') > Len(dispatched) /\ Len(dispatched) > 0) =>
        /\ pc = "waiting"
        /\ inFlight = {}
        /\ Len(dispatched') = Len(dispatched) + 1
        /\ logs # <<>> => logs[Len(logs)].tag = "INFO"

FinalLogShape(ls, lines) ==
    LET n == Len(lines) IN
    /\ Len(ls) = 2 * n
    /\ \A i \in 1..n : IsOutcomeTag(ls[2 * i - 1].tag) /\ ls[2 * i - 1].item = lines[i]
    /\ \A i \in 1..(n - 1) : ls[2 * i].tag = "INFO"
    /\ ls[2 * n].tag = "COMPLETE"
    /\ CountTag(ls, "COMPLETE") = 1
    /\ CountTag(ls, "INFO") = n - 1
    /\ CountTag(ls, "SUCCESS") + CountTag(ls, "ERROR") = n

\* C2: a run over N >= 1 entries during which Clear Logs is not pressed ends
\* with a log of exactly 2N entries: one SUCCESS or ERROR entry per input
\* entry in input order, an INFO entry after each of them but the last, and
\* one COMPLETE entry, the last.
C2_FinalLog ==
    [][(RunEnds /\ LogIntact) => FinalLogShape(logs', run.lines)]_vars

C2_Witness ==
    /\ ~isSubmitting
    /\ Len(logs) = 4
    /\ logs[4].tag = "COMPLETE"
    /\ logs[2].tag = "INFO"
    /\ logs[1].tag = "ERROR"
    /\ logs[3].tag = "SUCCESS"

\* C3: the COMPLETE entry appended at the end of a run states the total
\* number of entries of that run and the number of SUCCESS entries that were
\* logged during that same run.
C3_CompleteCountsThisRun ==
    [][(RunEnds /\ LogIntact) =>
          LET c == logs'[Len(logs')] IN
          /\ c.tag = "COMPLETE"
          /\ c.total = run.total
          /\ c.success = CountTag(logs', "SUCCESS")]_vars

\* the outcomes of a dispatch that fails: the fetch rejects, the body is not
\* JSON, or the status is not 2xx
Fails(o) ==
    \/ o.kind = "reject"
    \/ o.kind = "response" /\ ~o.body.parses
    \/ o.kind = "response" /\ ~(o.status >= 200 /\ o.status < 300)

C4_Inv ==
    /\ \A o \in FetchOutcomes :
          OutcomeEntry(<<"a">>, o).tag = (IF Fails(o) THEN "ERROR" ELSE "SUCCESS")
    /\ isSubmitting =>
          /\ Len(dispatched) <= run.total
          /\ Len(dispatched) = run.completed + Cardinality(inFlight)
          /\ \A i \in 1..Len(dispatched) : TargetOf(dispatched[i]) = run.lines[i]

\* a dispatch settles
C4_Step ==
    (inFlight # {} /\ inFlight' = {}) =>
        /\ Len(logs') = Len(logs) + 2
        /\ SubSeq(logs', 1, Len(logs)) = logs
        /\ IsOutcomeTag(logs'[Len(logs) + 1].tag)
        /\ logs'[Len(logs) + 1].item = run.lines[run.completed + 1]
        /\ ~IsOutcomeTag(logs'[Len(logs) + 2].tag)
        /\ IF run.completed + 1 < run.total
           THEN pc' = "waiting" /\ isSubmitting' /\ run'.completed = run.completed + 1
           ELSE pc' = "idle" /\ ~isSubmitting'

\* a waiting run goes on with the next line, whatever was logged before
C4_Continue ==
    (pc = "waiting" /\ pc' # "waiting") =>
        /\ pc' = "fetching"
        /\ dispatched' = Append(dispatched, dispatched'[Len(dispatched')])
        /\ TargetOf(dispatched'[Len(dispatched')]) = run.lines[run.completed + 1]

\* C4: a dispatch that fails appends exactly one ERROR entry and does not
\* stop the loop: every trimmed non-empty line is dispatched exactly once
\* whatever the outcome of earlier lines, and none a second time.
C4_FailureDoesNotHalt ==
    [](C4_Inv) /\ [][C4_Step /\ C4_Continue]_vars

C4_Witness ==
    /\ pc = "fetching"
    /\ Len(dispatched) = 2
    /\ Len(logs) = 2
    /\ logs[1].tag = "ERROR"
    /\ logs[1].kind = "Network/Client Error"

C6_AnyRequiredEmpty ==
    \/ incidentType = ""
    \/ threatType = ""
    \/ reporterName = <<>>
    \/ reporterEmail = <<>>
    \/ description = <<>>
    \/ bulkData = <<>>

C6_Step ==
    (C6_AnyRequiredEmpty /\ ~isSubmitting) =>
        /\ ~isSubmitting'
        /\ UNCHANGED <<pc, run, inFlight, dispatched, progress>>
        /\ logs' = logs \/ logs' = <<>>
        /\ (notification' # notification /\ notification' # NoNotification) =>
              /\ notification'.type = "error"
              /\ logs' = logs
              /\ UNCHANGED formVars

\* C6: when handleSubmit is invoked while incidentType, threatType,
\* reporterName, reporterEmail, description or the bulk text is empty, the
\* run does not start: nothing is built or dispatched, isSubmitting stays
\* false, log and progress are unchanged and one error notification is
\* raised.
C6_MissingFieldsBlockRun == [][C6_Step]_vars

C6_Witness ==
    /\ C6_AnyRequiredEmpty
    /\ incidentType # ""
    /\ bulkData # <<>>
    /\ ~isSubmitting
    /\ notification.type = "error"
    /\ Len(logs) > 0
    /\ progress = 100


\* C5: every report the orchestrator dispatches to POST /api/report carries
\* the signed-in user's bearer token in an Authorization header, so that the
\* gateway's authorization check passes (no 401) and the report is forwarded
\* upstream with that token.
C5_DispatchCarriesBearer ==
    \A i \in 1..Len(dispatched) :
        LET h == HeaderGet(dispatched[i].headers, "Authorization") IN
        /\ h # <<>>
        /\ validateAuthHeader(h)
        /\ POST(h, dispatched[i].body, [kind |-> "timeout"]).status # 401
        /\ POST(h, dispatched[i].body, [kind |-> "timeout"]).forwarded # <<>>

(***************************************************************************)
(* Specification of the report builder: every incident type can be         *)
(* selected, every dispatch is answered 200, the log is left alone         *)
(***************************************************************************)
BuilderOutcomes == {o \in FetchOutcomes : o.kind = "response" /\ o.status = 200}

NextBuilder ==
    \/ \E a \in Accounts : AccountsEffect(a) /\ UNCHANGED <<gwVars, mwVars>>
    \/ \E v \in INCIDENT_TYPES \cup {""} :
            ~isSubmitting /\ SetIncidentType(v) /\ UNCHANGED <<gwVars, mwVars>>
    \/ \E v \in THREAT_TYPES \cup {""} :
            ~isSubmitting /\ SetThreatType(v) /\ UNCHANGED <<gwVars, mwVars>>
    \/ \E v \in DescriptionInputs :
            ~isSubmitting /\ SetDescription(v) /\ UNCHANGED <<gwVars, mwVars>>
    \/ \E v \in BulkTexts :
            ~isSubmitting /\ SetBulkData(v) /\ UNCHANGED <<gwVars, mwVars>>
    \/ \E v \in DestinationIps :
            ~isSubmitting /\ SetDestinationIp(v) /\ UNCHANGED <<gwVars, mwVars>>
    \/ \E v \in DestinationPorts :
            ~isSubmitting /\ SetDestinationPort(v) /\ UNCHANGED <<gwVars, mwVars>>
    \/ HandleSubmitStart /\ UNCHANGED <<gwVars, mwVars>>
    \/ \E o \in BuilderOutcomes : FetchSettles(o) /\ UNCHANGED <<gwVars, mwVars>>
    \/ DelayElapses /\ UNCHANGED <<gwVars, mwVars>>

SpecBuilder == Init /\ [][NextBuilder]_vars

(***************************************************************************)
(* Properties of the form and of the reports built from it                 *)
(***************************************************************************)
\* tt is empty or one of the threat types the table allows for it
C13_Permitted(it, tt) ==
    tt = "" \/ (it \in INCIDENT_TYPES /\ tt \in SeqToSet(INCIDENT_THREAT_MAP[it]))

\* C13: after any sequence of incident-type and threat-type selections,
\* once the dependent effect has run, threatType is empty or a member of
\* INCIDENT_THREAT_MAP[incidentType] (for Phishing the allowed types are
\* exactly URL); every report a run dispatches has a threatType permitted
\* for its incidentType.  Checked on the form, on the effect applied to
\* every incident type that can be selected next, and on the reports of
\* the run.
C13_ThreatTypePermitted ==
    /\ C13_Permitted(incidentType, threatType)
    /\ \A it \in INCIDENT_TYPES \cup {""} :
          C13_Permitted(it, ThreatTypeEffect(it, threatType).threatType)
    /\ incidentType = "Phishing" => availableThreatTypes = <<"URL">>
    /\ incidentType # "" =>
          availableThreatTypes = INCIDENT_THREAT_MAP[incidentType]
    /\ \A i \in 1..Len(dispatched) :
          LET f == dispatched[i].body.value.f IN
          /\ f.threatType.s # ""
          /\ C13_Permitted(f.incidentType.s, f.threatType.s)

C13_Witness ==
    /\ incidentType = "Malware"
    /\ threatType = "URL"
    /\ Len(dispatched) = 2
    /\ dispatched[2].body.value.f.incidentType.s = "Malware"
    /\ dispatched[2].body.value.f.threatType.s = "URL"


(***************************************************************************)
(* Specification of the form: the fields are edited, no run is started     *)
(***************************************************************************)
TargetTexts ==
    {<<>>,
     <<" ", " ", "\n", " ">>,
     <<"1", ".", "2", ".", "3", ".", "4", "\n", "\n", " ", " ", "9", "9", "9", ".", "1", ".", "1", ".", "1", " ", "\n", "h", "t", "t", "p", ":", "/", "/", "a", ".", "b">>,
     <<"h", "t", "t", "p", ":", "/", "/", "a", ".", "b", "/", "x", "\n", "f", "t", "p", ":", "/", "/", "a", ".", "b", "\n", " ", "H", "T", "T", "P", "S", ":", "/", "/", "c", "\n", "h", "t", "t", "p", ":", "/", "/">>,
     <<":", ":", "1", "\n", "2", "0", "0", "1", ":", "d", "b", "8", ":", ":", "1", "\n", "1", ":", ":", "\n", "1", ".", "2", ".", "3", ".", "4">>,
     <<"0", "1", "2", "3", "4", "5", "6", "7", "-", "8", "9", "a", "b", "-", "c", "d", "e", "f", "-", "0", "1", "2", "3", "-", "4", "5", "6", "7", "8", "9", "A", "B", "C", "D", "E", "F", "\n", "1", ".", "2", ".", "3", ".", "4", "\n", "0", "1", "2", "3">>,
     <<"a", "\n", "b", "\n", "a">>}

IpSamples ==
    {<<>>,
     <<" ">>,
     <<"2", "0", "3", ".", "0", ".", "1", "1", "3", ".", "5">>,
     <<"9", "9", "9", ".", "1", ".", "1", ".", "1">>,
     <<"2", "5", "6", ".", "1", ".", "1", ".", "1">>,
     <<"2", "5", "5", ".", "2", "5", "5", ".", "2", "5", "5", ".", "2", "5", "5">>,
     <<"1", ".", "2", ".", "3">>,
     <<"1", ".", "2", ".", "3", ".", "4", ".", "5">>,
     <<"0", "1", ".", "0", "2", ".", "0", "3", ".", "0", "0", "4">>,
     <<"1", ".", "2", ".", "3", ".", "4", " ">>,
     <<"1", ".", "2", ".", "3", ".", "x">>,
     <<"2", "0", "0", "1", ":", "d", "b", "8", ":", ":", "1">>,
     <<":", ":", "1">>,
     <<"1", ":", ":">>,
     <<":", ":">>,
     <<"1", ":", "2", ":", "3", ":", "4", ":", "5", ":", "6", ":", "7", ":", "8">>,
     <<"1", ":", "2", ":", "3", ":", "4", ":", "5", ":", "6", ":", "7">>,
     <<"f", "e", "8", "0", ":", ":", "1", ":", "2">>,
     <<"1", "2", "3", "4", "5", ":", ":", "1">>,
     <<"g", ":", ":", "1">>,
     <<"1", ":", "2", ":", "3", ":", "4", ":", "5", ":", "6", ":", "7", ":", ":">>,
     <<":", ":", "2", ":", "3", ":", "4", ":", "5", ":", "6", ":", "7", ":", "8">>,
     <<":", ":", "1", ":", "2", ":", "3", ":", "4", ":", "5", ":", "6", ":", "7", ":", "8">>,
     <<"1", ":", ":", "2", ":", ":", "3">>,
     <<"A", ":", "b", ":", "C", ":", "d", ":", "E", ":", "f", ":", "0", ":", "9">>}

PortSamples ==
    {<<>>,
     <<"8", "0">>,
     <<"0">>,
     <<"6", "5", "5", "3", "6">>,
     <<"8", "0", "a", "b", "c">>,
     <<"a", "b", "c">>}

NextForm ==
    \/ \E a \in Accounts : AccountsEffect(a) /\ UNCHANGED <<gwVars, mwVars>>
    \/ \E v \in INCIDENT_TYPES \cup {""} :
            SetIncidentType(v) /\ UNCHANGED <<gwVars, mwVars>>
    \/ \E v \in THREAT_TYPES \cup {""} :
            SetThreatType(v) /\ UNCHANGED <<gwVars, mwVars>>
    \/ \E v \in TargetTexts : SetBulkData(v) /\ UNCHANGED <<gwVars, mwVars>>
    \/ \E v \in IpSamples : SetDestinationIp(v) /\ UNCHANGED <<gwVars, mwVars>>
    \/ \E v \in PortSamples : SetDestinationPort(v) /\ UNCHANGED <<gwVars, mwVars>>

SpecForm == Init /\ [][NextForm]_vars

\* the lines of a text, trimmed, the empty ones removed, in order
C14_Lines(text) ==
    LET ls == Split(text, "\n") IN
    SelectSeq([i \in 1..Len(ls) |-> Trim(ls[i])], LAMBDA l : l # <<>>)

\* the validator of a threat type
C14_Accepts(tt, e) ==
    CASE tt = "IP Address" -> validateIpAddress(e)
      [] tt = "URL" -> validateUrl(e)
      [] tt = "Azure Subscription" -> validateAzureSubscription(e)

C14_Contract(r, tt, text) ==
    /\ r.entries = C14_Lines(text)
    /\ r.valid + r.invalid = Len(r.entries)
    /\ r.valid = Cardinality({i \in 1..Len(r.entries) : C14_Accepts(tt, r.entries[i])})

\* C14: for every bulk text and every selected threat type the parser
\* yields the lines of the text, trimmed, without the empty ones, in their
\* order, the lines that fail validation included; validCount + invalidCount
\* is the number of entries and validCount the number of entries the type's
\* validator accepts; parsing the same input again gives the same result.
C14_ParserContract ==
    /\ threatType # "" =>
          /\ C14_Contract(validationResults, threatType, bulkData)
          /\ BulkValidationEffect(threatType, bulkData) = validationResults
    /\ \A tt \in THREAT_TYPES :
          C14_Contract(BulkValidationEffect(tt, bulkData), tt, bulkData)

C14_Witness ==
    /\ threatType = "IP Address"
    /\ validationResults.valid = 1
    /\ validationResults.invalid = 2
    /\ Len(Split(bulkData, "\n")) = 4
    /\ Len(validationResults.entries) = 3
    /\ validateIpAddress(validationResults.entries[1])
    /\ ~validateIpAddress(validationResults.entries[2])

\* a dotted quad of decimal numbers, each at most 255
C15_IsIpv4Literal(s) ==
    LET parts == Split(s, ".") IN
    /\ Len(parts) = 4
    /\ \A i \in 1..4 :
          /\ Len(parts[i]) \in 1..3
          /\ AllIn(parts[i], Digits)
          /\ DigitsValue(parts[i]) <= 255

\* colon-hexadecimal notation: eight groups of one to four hexadecimal
\* digits, or fewer with one "::" standing for the groups left out, at the
\* start, in the middle or at the end
C15_IsIpv6Literal(s) ==
    LET parts == Split(s, ":")
        n == Len(parts)
        empty == {i \in 1..n : parts[i] = <<>>}
        groups == {i \in 1..n : parts[i] # <<>>}
    IN  /\ \A i \in groups : Len(parts[i]) <= 4 /\ AllIn(parts[i], HexDigits)
        /\ \/ empty = {} /\ n = 8
           \/ \E k \in 2..(n - 1) : empty = {k} /\ Cardinality(groups) <= 7
           \/ n >= 3 /\ empty = {1, 2} /\ Cardinality(groups) <= 7
           \/ n >= 3 /\ empty = {n - 1, n} /\ Cardinality(groups) <= 7
           \/ n = 3 /\ empty = {1, 2, 3}

C15_IsIpLiteral(s) == C15_IsIpv4Literal(s) \/ C15_IsIpv6Literal(s)

\* C15: validateIpAddress(s) is true if and only if s is a dotted-quad IPv4
\* literal with every octet at most 255 or a valid IPv6 literal in full or
\* compressed notation, a literal compressed in the middle such as
\* 2001:db8::1 included.
C15_ValidIpIffLiteral ==
    /\ Trim(destinationIp) # <<>> =>
          destinationIpValid = <<C15_IsIpLiteral(destinationIp)>>
    /\ threatType = "IP Address" =>
          \A i \in 1..Len(validationResults.entries) :
              validateEntry(validationResults.entries[i], threatType)
                  <=> C15_IsIpLiteral(validationResults.entries[i])

C16_TargetFields == {"sourceUrl", "sourceIp", "reportedSubscriptionId"}

C16_DestinationFields == {"destinationIp", "destinationPort"}

C16_TargetField(tt) ==
    CASE tt = "URL" -> "sourceUrl"
      [] tt = "IP Address" -> "sourceIp"
      [] tt = "Azure Subscription" -> "reportedSubscriptionId"

\* the report r, built for the pair (it, tt) and the target item
C16_Shape(r, it, tt, item) ==
    /\ DOMAIN r \cap C16_TargetFields = {C16_TargetField(tt)}
    /\ r[C16_TargetField(tt)] = JStr(item)
    /\ DOMAIN r \cap C16_DestinationFields =
          (IF (it \in {"Brute Force", "Denial of Service"}) /\ tt = "IP Address"
           THEN C16_DestinationFields ELSE {})
    /\ r.incidentType = JStr(it)
    /\ r.threatType = JStr(tt)

\* C16: in every report the Report Builder produces, the target fields
\* present depend on (incidentType, threatType) only: exactly one of
\* sourceUrl (URL), sourceIp (IP Address) and reportedSubscriptionId (Azure
\* Subscription) is set, to the raw target, and the other two are absent;
\* destinationIp and destinationPort are present if and only if
\* incidentType is Brute Force or Denial of Service and threatType is IP
\* Address.  Checked on the reports of the run and, when the next line is
\* about to be reported, on the report built for every pair of types.
C16_TargetFieldsByType ==
    /\ \A i \in 1..Len(dispatched) :
          C16_Shape(dispatched[i].body.value.f,
                    run.incidentType, run.threatType, run.lines[i])
    /\ pc = "waiting" =>
          \A it \in INCIDENT_TYPES, tt \in THREAT_TYPES :
              LET item == run.lines[run.completed + 1] IN
              C16_Shape(BuildReport(item, [run EXCEPT !.incidentType = it,
                                                      !.threatType = tt]),
                        it, tt, item)

C16_Witness ==
    /\ Len(dispatched) = 2
    /\ run.incidentType = "Denial of Service"
    /\ "destinationPort" \in DOMAIN dispatched[2].body.value.f
    /\ "sourceIp" \in DOMAIN dispatched[2].body.value.f
    /\ "sourceUrl" \notin DOMAIN dispatched[2].body.value.f

\* C17: when incidentType is Brute Force or Denial of Service and
\* threatType is IP Address, a run starts only if the destination IP is a
\* valid IP address and the destination port a valid port in [1, 65535];
\* with a non-empty but invalid destination IP or port no report is
\* dispatched.
C17_DestinationValidatedBeforeRun ==
    /\ (isSubmitting /\ NeedsDestination(run.incidentType, run.threatType)) =>
          /\ validateIpAddress(run.destinationIp)
          /\ validatePort(run.destinationPort)
    /\ \A i \in 1..Len(dispatched) :
          LET f == dispatched[i].body.value.f IN
          "destinationIp" \in DOMAIN f =>
              /\ validateIpAddress(f.destinationIp.s)
              /\ validatePort(f.destinationPort.s)

\* the entries the Validation Warning announces as skipped
C18_AnnouncedInvalid ==
    {validationResults.entries[k] : k \in
        {j \in 1..Len(validationResults.entries) :
            ~validateEntry(validationResults.entries[j], threatType)}}

\* C18: the entries of the bulk list that do not match the format of the
\* selected threat type, counted as invalid and announced in the Validation
\* Warning as skipped, are skipped by the submission: no report is
\* dispatched for them.
C18_InvalidEntriesSkipped ==
    \A i \in 1..Len(dispatched) :
        /\ TargetOf(dispatched[i]) \notin C18_AnnouncedInvalid
        /\ validateEntry(TargetOf(dispatched[i]), run.threatType)

\* C19: in every state in which a run is in progress the completion
\* percentage equals round(100 * completed / total) for the completed count
\* and the total of the current run, between the start of the run and the
\* completion of its first item and in a run started after an earlier run
\* finished included.
C19_ProgressIsPercentage ==
    isSubmitting => progress = RoundPercent(run.completed, run.total)

C20_Inv ==
    /\ isSubmitting <=> pc # "idle"
    /\ isSubmitting <=> run # NoRun
    /\ Cardinality(inFlight) <= 1
    /\ ~isSubmitting => (inFlight = {} /\ dispatched = <<>>)

C20_Step ==
    /\ (~isSubmitting /\ isSubmitting') =>
          /\ pc = "idle" /\ inFlight = {} /\ run = NoRun
          /\ ~RequiredFieldsMissing
          /\ run'.completed = 0
    /\ (isSubmitting /\ isSubmitting') =>
          /\ run'.lines = run.lines
          /\ run'.total = run.total
          /\ run'.completed \in {run.completed, run.completed + 1}
          /\ Len(dispatched') >= Len(dispatched)
    /\ (isSubmitting /\ ~isSubmitting') =>
          /\ run.completed + 1 = run.total
          /\ logs' # <<>>
          /\ logs'[Len(logs')].tag = "COMPLETE"
          /\ logs'[Len(logs')].total = run.total

\* C20: a run starts only while no run is active (the submit action is
\* disabled while isSubmitting is true), so under any interleaving of user
\* actions at most one run is active; isSubmitting returns to false only
\* with the COMPLETE entry of that run appended.
C20_OneRunAtATime == [](C20_Inv) /\ [][C20_Step]_vars

\* a second run, entered after the first one completed
C20_Witness ==
    /\ isSubmitting
    /\ pc = "fetching"
    /\ run.completed = 0
    /\ run.total = 2
    /\ progress = 100
    /\ inFlight = {1}


(***************************************************************************)
(* Specification of a run to its end: the form (without the destination    *)
(* fields) is edited between runs, Clear Logs is pressed in every state,   *)
(* every fetch that is in flight settles and every delay timer that is     *)
(* pending fires                                                           *)
(***************************************************************************)
RunTexts == BulkTexts \cup {<<" ", "\n", " ">>}

NextRun ==
    \/ \E a \in {x \in Accounts : x.name # <<>>} : AccountsEffect(a) /\ UNCHANGED <<gwVars, mwVars>>
    \/ \E v \in {"Phishing", "Malware"} :
            ~isSubmitting /\ SetIncidentType(v) /\ UNCHANGED <<gwVars, mwVars>>
    \/ \E v \in THREAT_TYPES \cup {""} :
            ~isSubmitting /\ SetThreatType(v) /\ UNCHANGED <<gwVars, mwVars>>
    \/ \E v \in DescriptionInputs :
            ~isSubmitting /\ SetDescription(v) /\ UNCHANGED <<gwVars, mwVars>>
    \/ \E v \in RunTexts :
            ~isSubmitting /\ SetBulkData(v) /\ UNCHANGED <<gwVars, mwVars>>
    \/ ClearLogs /\ UNCHANGED <<gwVars, mwVars>>
    \/ HandleSubmitStart /\ UNCHANGED <<gwVars, mwVars>>
    \/ \E o \in FetchOutcomes : FetchSettles(o) /\ UNCHANGED <<gwVars, mwVars>>
    \/ DelayElapses /\ UNCHANGED <<gwVars, mwVars>>

\* a fetch resolves or rejects in the end; setTimeout calls its callback
SpecRun ==
    /\ Init
    /\ [][NextRun]_vars
    /\ WF_vars(\E o \in FetchOutcomes : FetchSettles(o) /\ UNCHANGED <<gwVars, mwVars>>)
    /\ WF_vars(DelayElapses /\ UNCHANGED <<gwVars, mwVars>>)

C21_Completed ==
    /\ ~isSubmitting
    /\ logs # <<>>
    /\ logs[Len(logs)].tag = "COMPLETE"

\* C21: every run that starts completes in the end: given that each fetch
\* settles and each delay timer fires, a state with isSubmitting true is
\* followed by a state where the COMPLETE entry has been appended and
\* isSubmitting is false, whatever the outcomes of the dispatches are.
C21_RunCompletes == isSubmitting ~> C21_Completed

\* a run of two entries has ended after a rejected fetch and a reply that
\* is not JSON
C21_Witness ==
    /\ C21_Completed
    /\ Len(logs) = 4
    /\ logs[1] = ClientErrorEntry(<<"a">>, "Failed to fetch")
    /\ logs[3].tag = "ERROR"
    /\ logs[3] # ClientErrorEntry(<<"b">>, "Failed to fetch")
    /\ logs[4] = CompleteEntry(2, 0)

C26_Inv ==
    isSubmitting =>
        /\ Len(dispatched) = run.completed + (IF pc = "fetching" THEN 1 ELSE 0)
        /\ \A i \in 1..Len(dispatched) :
              dispatched[i] = FetchRequest(run.lines[i], run)

C26_Step ==
    LET k == run.completed + 1 IN
    \* Clear Logs during a run touches the log only
    /\ (isSubmitting /\ logs # <<>> /\ logs' = <<>>) =>
          UNCHANGED <<isSubmitting, progress, pc, run, inFlight, dispatched>>
    \* what the run appends is appended to the log as it is then
    /\ (isSubmitting /\ (run' # run \/ ~isSubmitting')) =>
          /\ Len(logs') = Len(logs) + 2
          /\ SubSeq(logs', 1, Len(logs)) = logs
          /\ logs'[Len(logs) + 1].tag \in {"SUCCESS", "ERROR"}
          /\ logs'[Len(logs) + 1].item = run.lines[k]
          /\ logs'[Len(logs) + 2].tag = (IF k < run.total THEN "INFO" ELSE "COMPLETE")
    \* the dispatches go on, one line after the other
    /\ (isSubmitting /\ isSubmitting') =>
          \/ dispatched' = dispatched
          \/ dispatched' = Append(dispatched, FetchRequest(run.lines[k], run))

\* C26: Clear Logs pressed while a run is in progress, at any point between
\* the appends of the run, removes the entries appended so far and nothing
\* else: the dispatches are not stopped, reordered or repeated, and every
\* entry the run appends afterwards is in the log, in the order of the
\* appends.
C26_ClearLogsDuringRun == [](C26_Inv) /\ [][C26_Step]_vars

\* a run of two entries has ended; the log was cleared after the first
\* entry's lines and holds the second entry's lines only
C26_Witness ==
    /\ ~isSubmitting
    /\ Len(logs) = 2
    /\ logs[1].tag = "SUCCESS"
    /\ logs[1].item = <<"b">>
    /\ logs[2] = CompleteEntry(2, 0)

\* C27: whenever a run starts, its list of entries is not empty (total >= 1):
\* a bulk text of white space and newlines only does not start a run; the
\* log is not emptied and no COMPLETE entry is written for it.
C27_RunHasEntries ==
    /\ isSubmitting => run.total >= 1
    /\ \A i \in 1..Len(logs) : logs[i].tag = "COMPLETE" => logs[i].total >= 1


(***************************************************************************)
(* Specification of the form edited during a run: every field is edited   *)
(* in every state, before and while the run is in progress; one run is    *)
(* started, on the empty log, and every dispatch is answered 200           *)
(***************************************************************************)
NextEdit ==
    \/ \E a \in {x \in Accounts : x.name # <<>>} :
            AccountsEffect(a) /\ UNCHANGED <<gwVars, mwVars>>
    \/ \E v \in {"Phishing", "Brute Force"} :
            SetIncidentType(v) /\ UNCHANGED <<gwVars, mwVars>>
    \/ \E v \in THREAT_TYPES : SetThreatType(v) /\ UNCHANGED <<gwVars, mwVars>>
    \/ \E v \in DescriptionInputs : SetDescription(v) /\ UNCHANGED <<gwVars, mwVars>>
    \/ \E v \in {<<"a">>, <<"b", "\n", "a">>} :
            SetBulkData(v) /\ UNCHANGED <<gwVars, mwVars>>
    \/ \E v \in DestinationIps : SetDestinationIp(v) /\ UNCHANGED <<gwVars, mwVars>>
    \/ \E v \in DestinationPorts : SetDestinationPort(v) /\ UNCHANGED <<gwVars, mwVars>>
    \/ \E v \in {"GMT", "UTC"} :
            SetTimeZone(v) /\ UNCHANGED <<gwVars, mwVars>>
    \/ \E v \in BOOLEAN :
            SetIsTest(v) /\ UNCHANGED <<gwVars, mwVars>>
    \/ \E v \in BOOLEAN :
            SetIsAnonymous(v) /\ UNCHANGED <<gwVars, mwVars>>
    \/ \E v \in {100, DefaultDelayMs} :
            SetDelayMs(v) /\ UNCHANGED <<gwVars, mwVars>>
    \/ logs = <<>> /\ HandleSubmitStart /\ UNCHANGED <<gwVars, mwVars>>
    \/ \E o \in BuilderOutcomes : FetchSettles(o) /\ UNCHANGED <<gwVars, mwVars>>
    \/ DelayElapses /\ UNCHANGED <<gwVars, mwVars>>

SpecEdit == Init /\ [][NextEdit]_vars

\* the values a run was started with
C25_Captured(r) == [r EXCEPT !.completed = 0]

C25_Inv ==
    isSubmitting =>
        /\ run.total = Len(run.lines)
        /\ Len(dispatched) <= run.total
        /\ \A i \in 1..Len(dispatched) :
              dispatched[i] = FetchRequest(run.lines[i], C25_Captured(run))
        /\ \A i \in 1..Len(logs) :
              logs[i].tag = "INFO" =>
                  (logs[i].delayMs = run.delayMs /\ logs[i].total = run.total)

C25_Step ==
    /\ (~isSubmitting /\ isSubmitting') => run' = Closure
    /\ (isSubmitting /\ isSubmitting') =>
          /\ C25_Captured(run') = C25_Captured(run)
          /\ \A i \in 1..Len(dispatched) : dispatched'[i] = dispatched[i]
    /\ (isSubmitting /\ ~isSubmitting') =>
          /\ Len(dispatched) = run.total
          /\ run.completed = run.total - 1

\* C25: every report of a run is built from the form values captured when
\* the run started: an edit of incident type, threat type, description,
\* time zone, destination fields, flags, bulk text or delay made while the
\* run is in progress changes neither the content nor the number of the
\* reports that remain, nor the delay between them.
C25_RunUsesCapturedForm == [](C25_Inv) /\ [][C25_Step]_vars

\* the second report of a run is in flight and every field of the form has
\* been given another value than the run started with
C25_Witness ==
    /\ isSubmitting
    /\ Len(dispatched) = 2
    /\ run.incidentType = "Brute Force"
    /\ incidentType = "Phishing"
    /\ threatType # run.threatType
    /\ description # run.description
    /\ timeZone # run.timeZone
    /\ destinationIp # run.destinationIp
    /\ destinationPort # run.destinationPort
    /\ isTest # run.isTest
    /\ isAnonymous # run.isAnonymous
    /\ ParseLines(bulkData) # run.lines
    /\ delayMs # run.delayMs


(***************************************************************************)
(* Specification of the gateway: POST applied to the requests and upstream *)
(* behaviours below                                                        *)
(***************************************************************************)
AuthHeaders ==
    {<<>>,
     << <<>> >>,
     <<Bearer \o <<"t", "o", "k", "n">> >>,
     <<Bearer \o <<"a", "b", "c">> >>,
     << <<"B", "a", "s", "i", "c", " ", "d", "X", "N", "l", "c", "g">> >>,
     << <<"t", "o", "k", "n">> >>}

SampleForm ==
    [NoRun EXCEPT !.incidentType = "Phishing", !.threatType = "URL",
                  !.reporterName = <<"A">>,
                  !.reporterEmail = <<"a", "@", "x">>,
                  !.description = <<"d">>]

\* a report as the page builds it
GoodReport == BuildReport(<<"h">>, SampleForm)

\* a report of an address that is not an IP address
BadIpReport ==
    BuildReport(<<"9", "9", "9", ".", "1", ".", "1", ".", "1">>,
                [SampleForm EXCEPT !.incidentType = "Spam",
                                   !.threatType = "IP Address"])

Without(f, name) == [k \in DOMAIN f \ {name} |-> f[k]]

RequestBodies ==
    {NotJsonText("{{"),
     JsonText(JNull),
     JsonText(JNum(5)),
     JsonText(JStr(<<"x">>)),
     JsonText(JObj(GoodReport)),
     JsonText(JObj(BadIpReport)),
     JsonText(JObj([GoodReport EXCEPT !.incidentType = JStr("Bogus")])),
     JsonText(JObj([GoodReport EXCEPT !.threatType = JStr("IP Address")])),
     JsonText(JObj(Without(GoodReport, "threatType"))),
     JsonText(JObj([GoodReport EXCEPT !.reporterEmail = JStr(<<"a", "x">>)])),
     JsonText(JObj([GoodReport EXCEPT !.reporterName = JNum(7)])),
     JsonText(JObj([GoodReport EXCEPT !.reportNotes = JStr(<<>>)])),
     JsonText(JObj([GoodReport EXCEPT !.date = JStr(<<"1", "/", "2">>)])),
     JsonText(JObj(Without(GoodReport, "time")))}

\* what the upstream call does: the 30 s abort, a failure of the call, or a
\* response with a status and a body text
UpstreamOutcomes ==
    {[kind |-> "timeout"],
     [kind |-> "error", message |-> "ECONNREFUSED"],
     [kind |-> "error", message |-> "ENOTFOUND"],
     [kind |-> "response", status |-> 200, text |-> JsonText(JObj([id |-> JStr("r1")]))],
     [kind |-> "response", status |-> 200, text |-> NotJsonText("OK")],
     [kind |-> "response", status |-> 201, text |-> JsonText(JObj([id |-> JStr("r2")]))],
     [kind |-> "response", status |-> 400, text |-> JsonText(JObj([message |-> JStr("secret-a")]))],
     [kind |-> "response", status |-> 400, text |-> JsonText(JObj([message |-> JStr("secret-b")]))],
     [kind |-> "response", status |-> 403, text |-> JsonText(JObj([message |-> JStr("secret-a")]))],
     [kind |-> "response", status |-> 500, text |-> NotJsonText("stack trace")],
     [kind |-> "response", status |-> 500, text |-> JsonText(JObj([message |-> JStr("secret-b")]))]}

NextGateway ==
    \E a \in AuthHeaders, b \in RequestBodies, u \in UpstreamOutcomes :
        HandlePost(a, b, u)

SpecGateway == Init /\ [][NextGateway]_vars

\* the header is 'Bearer ' followed by a token: as the handler reads it,
\* longer than 10 characters
C7_BearerForm(h) ==
    /\ h # <<>>
    /\ StartsWith(h[1], Bearer)
    /\ Len(h[1]) > 10

C7_BodyRejected(b) == ~b.parses \/ ~validateReportBody(b.value).valid

C7_Non2xx(u) == u.kind = "response" /\ (u.status < 200 \/ u.status > 299)

\* answered without an upstream call
C7_Local(x) == ~C7_BearerForm(x.authHeader) \/ C7_BodyRejected(x.body)

C8_SameStatus(u, v) ==
    /\ u.kind = v.kind
    /\ u.kind = "response" => u.status = v.status

\* the line handleSubmit logs for a response of the gateway
C8_LogLine(r) ==
    OutcomeEntry(<<"a">>, [kind |-> "response", status |-> r.status,
                           body |-> JSONstringify(r.body)])

\* C8: when the upstream answers non-2xx or the proxy fails, the response
\* to the browser depends only on the upstream status: upstream responses
\* with the same non-2xx status and different bodies give identical
\* responses and identical submission-log lines.
C8_NoUpstreamBodyLeak ==
    \A i \in 1..Len(gwExchange) :
        LET x == gwExchange[i] IN
        (x.response.forwarded # <<>>
            /\ (x.upstream.kind = "error" \/ C7_Non2xx(x.upstream))) =>
            \A u \in UpstreamOutcomes :
                C8_SameStatus(u, x.upstream) =>
                    LET r == POST(x.authHeader, x.body, u) IN
                    /\ r.status = x.response.status
                    /\ r.body = x.response.body
                    /\ C8_LogLine(r) = C8_LogLine(x.response)

C8_Witness ==
    /\ gwExchange # <<>>
    /\ gwExchange[1].upstream.kind = "response"
    /\ gwExchange[1].upstream.status = 400
    /\ gwExchange[1].upstream.text.parses
    /\ gwExchange[1].response.status = 400
    /\ gwExchange[1].response.forwarded # <<>>

\* the report names a source address or URL that the validators reject
C11_BadSource(f) ==
    \/ "sourceIp" \in DOMAIN f
          /\ ~(f.sourceIp.t = "str" /\ validateIpAddress(f.sourceIp.s))
    \/ "sourceUrl" \in DOMAIN f
          /\ ~(f.sourceUrl.t = "str" /\ validateUrl(f.sourceUrl.s))

\* C11: POST /api/report validates every input field of a report before it
\* forwards it: an authorized request whose report has a sourceIp that is
\* not a valid IP address, or a sourceUrl that is not an http/https URL, is
\* answered 400 and is not sent to the upstream abuse API.
C11_SourceValidatedBeforeForward ==
    \A i \in 1..Len(gwExchange) :
        LET x == gwExchange[i] IN
        (/\ validateAuthHeader(x.authHeader)
         /\ x.body.parses
         /\ x.body.value.t = "obj"
         /\ C11_BadSource(x.body.value.f)) =>
            /\ x.response.status = 400
            /\ x.response.forwarded = <<>>

\* C23: every report POST /api/report forwards to the upstream abuse API has
\* a threatType permitted for its incidentType by INCIDENT_THREAT_MAP; a
\* body whose threatType is valid by itself but not permitted for its
\* incidentType (Phishing with IP Address) is answered 400.
C23_ForwardedThreatTypePermitted ==
    \A i \in 1..Len(gwExchange) :
        LET x == gwExchange[i]
            f == x.body.value.f
            paired == /\ x.body.parses
                      /\ x.body.value.t = "obj"
                      /\ Field(f, "incidentType").t = "str"
                      /\ Field(f, "threatType").t = "str"
                      /\ f.incidentType.s \in INCIDENT_TYPES
                      /\ f.threatType.s \in THREAT_TYPES
            permitted == f.threatType.s \in SeqToSet(INCIDENT_THREAT_MAP[f.incidentType.s])
        IN  /\ x.response.forwarded # <<>> => (paired /\ permitted)
            /\ (validateAuthHeader(x.authHeader) /\ paired /\ ~permitted) =>
                  x.response.status = 400


(***************************************************************************)
(* Specification of the security routes: the identifiers requested and     *)
(* what the upstream call does                                             *)
(***************************************************************************)
CveIds ==
    {<<"C", "V", "E", "-", "2", "0", "2", "4", "-", "1", "2", "3", "4", "5">>,
     <<"c", "v", "e", "-", "2", "0", "2", "4", "-", "1", "2", "3", "4">>,
     <<"C", "v", "E", "-", "2", "0", "2", "1", "-", "0", "0", "0", "0", "0", "1">>,
     <<"C", "V", "E", "-", "2", "0", "2", "4", "-", "1", "2", "3">>,
     <<"C", "V", "E", "-", "2", "4", "-", "1", "2", "3", "4", "5">>,
     <<"C", "V", "E", "-", "2", "0", "2", "4", "-", "1", "2", "3", "4", "x">>,
     <<"x", "C", "V", "E", "-", "2", "0", "2", "4", "-", "1", "2", "3", "4">>,
     <<"C", "V", "E", "-", "2", "0", "2", "4", "-", "1", "2", "3", "4", "\n">>,
     <<>>,
     <<"C", "V", "E", "-", "2", "0", "2", "4", "-", "1", "2", "3", "4", "/">>,
     <<"C", "V", "E", " ", "2", "0", "2", "4", " ", "1", "2", "3", "4">>,
     <<"2", "0", "2", "4", "-", "J", "a", "n">>}

CvrfIds ==
    {<<"2", "0", "2", "4", "-", "J", "a", "n">>,
     <<"2", "0", "2", "4", "-", "j", "a", "n">>,
     <<"2", "0", "2", "3", "-", "D", "E", "C">>,
     <<"2", "0", "2", "4", "-", "F", "o", "o">>,
     <<"2", "4", "-", "J", "a", "n">>,
     <<"2", "0", "2", "4", "-", "J", "a", "n", "u">>,
     <<"2", "0", "2", "4", "-", "J", "a", "n", "\n">>,
     <<>>,
     <<"2", "0", "2", "4", "J", "a", "n">>,
     <<"x", "2", "0", "2", "4", "-", "J", "a", "n">>,
     <<"2", "0", "2", "4", "-", "S", "e", "p", "'">>,
     <<"C", "V", "E", "-", "2", "0", "2", "4", "-", "1", "2", "3", "4", "5">>}

SecurityUpstreamOutcomes ==
    {[kind |-> "timeout"],
     [kind |-> "error", message |-> "ECONNREFUSED"],
     [kind |-> "response", status |-> 200,
      text |-> JsonText(JObj([value |-> JArr(<<JObj([ID |-> JStr(<<"u">>)])>>)]))],
     [kind |-> "response", status |-> 200, text |-> JsonText(JObj(<<>>))],
     [kind |-> "response", status |-> 200, text |-> JsonText(JNull)],
     [kind |-> "response", status |-> 200, text |-> NotJsonText("<html>")],
     [kind |-> "response", status |-> 404, text |-> JsonText(JObj(<<>>))],
     [kind |-> "response", status |-> 503, text |-> NotJsonText("busy")]}

NextSecurity ==
    \/ \E id \in CveIds, u \in SecurityUpstreamOutcomes : HandleGetCve(id, u)
    \/ \E id \in CvrfIds, u \in SecurityUpstreamOutcomes : HandleGetCvrf(id, u)

SpecSecurity == Init /\ [][NextSecurity]_vars

\* CVE-<4 digits>-<4 or more digits>, in any letter case
C12_WellFormedCve(id) ==
    LET parts == Split(id, "-") IN
    /\ Len(parts) = 3
    /\ ToLowerCase(parts[1]) = <<"c", "v", "e">>
    /\ Len(parts[2]) = 4 /\ AllIn(parts[2], Digits)
    /\ Len(parts[3]) >= 4 /\ AllIn(parts[3], Digits)

\* <4 digits>-<three-letter month abbreviation>, in any letter case
C12_WellFormedCvrf(id) ==
    LET parts == Split(id, "-") IN
    /\ Len(parts) = 2
    /\ Len(parts[1]) = 4 /\ AllIn(parts[1], Digits)
    /\ ToLowerCase(parts[2]) \in MonthAbbreviations

\* C12: GET /api/security/cve/{id} and GET /api/security/cvrf/{id} answer a
\* malformed identifier 400 without issuing any upstream fetch, and a
\* well-formed CVE identifier goes upstream in upper case only.
C12_MalformedIdNotFetched ==
    \A i \in 1..Len(secExchange) :
        LET x == secExchange[i]
            wellFormed == IF x.route = "cve" THEN C12_WellFormedCve(x.id)
                          ELSE C12_WellFormedCvrf(x.id)
        IN  /\ ~wellFormed => (x.response.status = 400 /\ x.response.fetched = <<>>)
            /\ wellFormed => x.response.fetched # <<>>
            /\ (x.route = "cve" /\ x.response.fetched # <<>>) =>
                  /\ x.response.fetched[1].id = ToUpperCase(x.id)
                  /\ \A k \in 1..Len(x.response.fetched[1].id) :
                        x.response.fetched[1].id[k] \notin SeqToSet(Lower)

C12_Witness ==
    /\ secExchange # <<>>
    /\ secExchange[1].route = "cve"
    /\ Len(secExchange[1].id) >= 13
    /\ ~C12_WellFormedCve(secExchange[1].id)
    /\ secExchange[1].response.status = 400
    /\ secExchange[1].response.fetched = <<>>


(***************************************************************************)
(* Specification of the updates route: the queries requested and what the  *)
(* upstream call does                                                      *)
(***************************************************************************)
\* upstream summaries, in the order the upstream lists them; two of them
\* carry the same release date and one has no Alias
UpdatesUpstream ==
    LET jan == JObj([ID |-> JStr(<<"2", "0", "2", "4", "-", "J", "a", "n">>),
          DocumentTitle |-> JStr(<<"J", "a", "n", "u", "a", "r", "y">>),
          CurrentReleaseDate |-> JStr(<<"2", "0", "2", "4", "-", "0", "1", "-", "0", "9">>),
          Alias |-> JStr(<<"2", "0", "2", "4", "-", "J", "a", "n">>)])
        feb == JObj([ID |-> JStr(<<"2", "0", "2", "4", "-", "F", "e", "b">>),
          DocumentTitle |-> JStr(<<"F", "e", "b", "r", "u", "a", "r", "y">>),
          CurrentReleaseDate |-> JStr(<<"2", "0", "2", "4", "-", "0", "2", "-", "1", "3">>),
          Alias |-> JStr(<<"2", "0", "2", "4", "-", "F", "e", "b">>)])
        dec == JObj([ID |-> JStr(<<"2", "0", "2", "3", "-", "D", "e", "c">>),
          DocumentTitle |-> JStr(<<"D", "e", "c", " ", "(", "j", "a", "n", " ", "f", "i", "x", ")">>),
          CurrentReleaseDate |-> JStr(<<"2", "0", "2", "4", "-", "0", "1", "-", "0", "9">>),
          Alias |-> JStr(<<"2", "0", "2", "3", "-", "D", "e", "c">>)])
        nov == JObj([ID |-> JStr(<<"2", "0", "2", "3", "-", "N", "o", "v">>),
          DocumentTitle |-> JStr(<<"N", "o", "v", "e", "m", "b", "e", "r">>),
          CurrentReleaseDate |-> JStr(<<"2", "0", "2", "3", "-", "1", "1", "-", "1", "4">>)])
        list(a) == [kind |-> "response", status |-> 200,
                    text |-> JsonText(JObj([value |-> JArr(a)]))]
    IN  {list(<<nov, jan, feb, dec>>),
         list(<<feb>>),
         [kind |-> "response", status |-> 200, text |-> JsonText(JObj(<<>>))],
         [kind |-> "response", status |-> 200, text |-> JsonText(JNull)],
         [kind |-> "response", status |-> 503, text |-> NotJsonText("busy")],
         [kind |-> "timeout"]}

\* the query strings: pages of the filtered list, orders of the pages, and
\* requests by key
UpdatesQueries ==
    LET opt(name, values) == {<<>>} \cup {name :> v : v \in values}
        tops == opt("top", {<<"1">>, <<"2">>}) \cup opt("$top", {<<"3">>})
        paged == {s @@ y @@ sk @@ t :
                    s \in opt("search", {<<"J", "A", "N">>}),
                    y \in opt("yearFilter", {<<"2", "0", "2", "4">>}),
                    sk \in opt("skip", {<<"0">>, <<"1">>, <<"2">>}),
                    t \in tops}
        ordered == {ob @@ o @@ sk @@ t :
                    ob \in {"orderby" :> <<"I", "D">>,
                            "$orderby" :> <<"C", "u", "r", "r", "e", "n", "t", "R", "e", "l", "e", "a", "s", "e", "D", "a", "t", "e", " ", "a", "s", "c">>},
                    o \in opt("order", {<<"a", "s", "c">>}),
                    sk \in opt("skip", {<<"1">>}),
                    t \in opt("top", {<<"2">>})}
        keyed == {"year" :> <<"2", "0", "2", "4">>,
                  "id" :> <<"2", "0", "2", "4", "-", "J", "a", "n">>,
                  "cve" :> <<"c", "v", "e", "-", "2", "0", "2", "4", "-", "1", "2", "3", "4", "5">>,
                  "cve" :> <<"x">>}
    IN  paged \cup ordered \cup keyed
            \cup {"search" :> <<"x">>, "top" :> <<"0">>, "skip" :> <<"4">>}

NextUpdates ==
    \E query \in UpdatesQueries, u \in UpdatesUpstream : HandleGetUpdates(query, u)

SpecUpdates == Init /\ [][NextUpdates]_vars

\* the decimal numeral of n, for n < 100
C22_Numeral(n) ==
    LET d(k) == CHOOSE c \in Digits : DigitValue(c) = k IN
    IF n < 10 THEN <<d(n)>> ELSE <<d(n \div 10), d(n % 10)>>

\* u passes the search and yearFilter filters of the query
C22_Passes(u, query) ==
    LET fieldOf(name) == IF name \in DOMAIN u.f THEN ToLowerCase(u.f[name].s) ELSE <<>>
        within(sub, s) == \E i \in 0..Len(s), j \in 0..Len(s) : SubSeq(s, i + 1, j) = sub
        search == IF "search" \in DOMAIN query THEN ToLowerCase(query["search"]) ELSE <<>>
        year == IF "yearFilter" \in DOMAIN query THEN query["yearFilter"] ELSE <<>>
    IN  /\ search # <<>> =>
              \E name \in {"DocumentTitle", "ID", "Alias"} :
                  name \in DOMAIN u.f /\ within(search, fieldOf(name))
        /\ year # <<>> => SubSeq(u.f["ID"].s, 1, Len(year)) = year

\* the number of times x occurs in the sequence s
C22_Count(s, x) == Cardinality({i \in 1..Len(s) : s[i] = x})

\* the release date as the triple year, month, day
C22_Date(u) ==
    LET parts == Split(u.f["CurrentReleaseDate"].s, "-") IN
    <<DigitsValue(parts[1]), DigitsValue(parts[2]), DigitsValue(parts[3])>>

C22_NotBefore(a, b) ==
    \/ a[1] > b[1]
    \/ a[1] = b[1] /\ a[2] > b[2]
    \/ a[1] = b[1] /\ a[2] = b[2] /\ a[3] >= b[3]

\* the page of the query with skip and top replaced by the numbers given
C22_Page(query, upstream, skip, top) ==
    GetUpdates(("skip" :> C22_Numeral(skip)) @@ ("top" :> C22_Numeral(top)) @@ query,
               upstream).body.f

RECURSIVE C22_Pages(_, _, _, _, _)
C22_Pages(query, upstream, from, top, n) ==
    IF from >= n THEN <<>>
    ELSE C22_Page(query, upstream, from, top).value.a
            \o C22_Pages(query, upstream, from + top, top, n)

\* the numbers the parameters of the query stand for
C22_Skip(query) ==
    IF "skip" \in DOMAIN query THEN DigitsValue(query["skip"]) ELSE 0

C22_Top(query) ==
    IF "top" \in DOMAIN query THEN DigitsValue(query["top"])
    ELSE IF "$top" \in DOMAIN query THEN DigitsValue(query["$top"])
    ELSE 50

C22_Listed(x) ==
    /\ x.route = "updates"
    /\ x.response.status = 200
    /\ x.upstream.text.value.t = "obj"
    /\ "value" \in DOMAIN x.upstream.text.value.f

\* C22: GET /api/security/updates over the upstream list U answers with
\* totalCount = the number of items of U that pass the search and
\* yearFilter filters, whatever skip and top are; value is the part
\* [skip, skip + top) of the passing items in sorted order (release date
\* descending when no orderby is given); the pages at skip = 0, top,
\* 2 * top, ... put end to end hold every passing item exactly once.
C22_LocalPagination ==
    \A i \in 1..Len(secExchange) :
        C22_Listed(secExchange[i]) =>
        LET x == secExchange[i]
            U == x.upstream.text.value.f["value"].a
            passing == {k \in 1..Len(U) : C22_Passes(U[k], x.q)}
            n == Cardinality(passing)
            body == x.response.body.f
            sorted == C22_Page(x.q, x.upstream, 0, Len(U)).value.a
            skip == C22_Skip(x.q)
            top == C22_Top(x.q)
            last == IF skip + top < n THEN skip + top ELSE n
        IN  /\ body.totalCount = JNum(n)
            /\ \A s \in 0..Len(U), t \in 0..(Len(U) + 1) :
                  C22_Page(x.q, x.upstream, s, t).totalCount = JNum(n)
            /\ Len(sorted) = n
            /\ \A k \in 1..Len(U) :
                  C22_Count(sorted, U[k]) = (IF k \in passing THEN C22_Count(U, U[k]) ELSE 0)
            /\ ("orderby" \notin DOMAIN x.q /\ "$orderby" \notin DOMAIN x.q) =>
                  \A a \in 1..n, b \in 1..n :
                      a < b => C22_NotBefore(C22_Date(sorted[a]), C22_Date(sorted[b]))
            /\ body.value = JArr(SubSeq(sorted, skip + 1, last))
            /\ \A t \in 1..(Len(U) + 1) :
                  C22_Pages(x.q, x.upstream, 0, t, n) = sorted

\* the second page of one item, of the two summaries of 2024 out of four
C22_Witness ==
    /\ secExchange # <<>>
    /\ C22_Listed(secExchange[1])
    /\ Len(secExchange[1].upstream.text.value.f["value"].a) = 4
    /\ "yearFilter" \in DOMAIN secExchange[1].q
    /\ "skip" \in DOMAIN secExchange[1].q /\ secExchange[1].q["skip"] = <<"1">>
    /\ "top" \in DOMAIN secExchange[1].q /\ secExchange[1].q["top"] = <<"1">>
    /\ secExchange[1].response.body.f.totalCount = JNum(2)
    /\ Len(secExchange[1].response.body.f.value.a) = 1
    /\ secExchange[1].response.body.f.value.a[1].f["ID"] = JStr(<<"2", "0", "2", "4", "-", "J", "a", "n">>)

\* C24: in GET /api/security/updates a cve filter value follows the rule of
\* the CVE route: a value that is not CVE-<4 digits>-<4 or more digits> is
\* rejected before any upstream call, and a value that is goes upstream in
\* upper case.
C24_CveFilterValidated ==
    \A i \in 1..Len(secExchange) :
        LET x == secExchange[i] IN
        (x.route = "updates" /\ "cve" \in DOMAIN x.q /\ "year" \notin DOMAIN x.q) =>
            /\ ~C12_WellFormedCve(x.q["cve"]) =>
                  (x.response.status = 400 /\ x.response.fetched = <<>>)
            /\ C12_WellFormedCve(x.q["cve"]) =>
                  /\ x.response.fetched # <<>>
                  /\ x.response.fetched[1].id = ToUpperCase(x.q["cve"])

(***************************************************************************)
(* Specification of the middleware: requests at the instants below         *)
(***************************************************************************)
Instants == {0, 60000, 60001}

ForwardedFor == {<<>>, << <<" ", "x", ",", " ", "y">> >>}

Pathnames == {<<"/", "a", "p", "i", "/", "r">>, <<"/", "a", "p", "i">>}

MwRequests ==
    {[pathname |-> p,
      headers |-> IF f = <<>> THEN <<>> ELSE ("x-forwarded-for" :> f[1])] :
        p \in Pathnames, f \in ForwardedFor}

\* the client with a forwarded address sends at every instant, the clients
\* without one at the last instant only
Arrivals ==
    {a \in MwRequests \X Instants :
        a[1].headers # <<>> \/ a[2] = 60001}

NextLimiter == \E a \in Arrivals : Middleware(a[1], a[2])

SpecLimiter == Init /\ [][NextLimiter]_vars

IsApiExchange(x) == StartsWith(x.pathname, ApiPrefix)

C9_Inv ==
    \A k \in DOMAIN admitted :
        Len(Recent(admitted, k, now)) <= MAX_REQUESTS_PER_WINDOW

C9_Step ==
    (mwExchange' # <<>> /\ IsApiExchange(mwExchange'[1])
        /\ Len(Recent(admitted, mwExchange'[1].key, now')) >= MAX_REQUESTS_PER_WINDOW) =>
        /\ mwExchange'[1].response.status = 429
        /\ HeaderGet(mwExchange'[1].response.headers, "Retry-After") = <<"60">>

\* C9: whenever a request to an /api/ path arrives and 30 or more requests
\* of the same IP were admitted within the preceding 60 seconds, it is
\* answered 429 with Retry-After: 60; no 60-second interval contains more
\* than 30 admitted requests of one IP.
C9_RollingWindowLimit == [](C9_Inv) /\ [][C9_Step]_vars

\* C10: every response the middleware produces for a request under /api/,
\* the 429 of a rate-limited request included, carries
\* X-Content-Type-Options: nosniff and X-Frame-Options: DENY.
C10_SecurityHeadersOnEveryApiResponse ==
    \A i \in 1..Len(mwExchange) :
        IsApiExchange(mwExchange[i]) =>
            /\ HeaderGet(mwExchange[i].response.headers, "X-Content-Type-Options")
                    = <<"nosniff">>
            /\ HeaderGet(mwExchange[i].response.headers, "X-Frame-Options")
                    = <<"DENY">>

\* the entry of key k in the map, as a sequence of none or one
C30_EntryOf(map, k) == SelectSeq(map, LAMBDA e : e.key = k)

\* C30: a client that is answered 429 with Retry-After: 60 and sends its
\* next request 60,000 ms or more after that 429 is admitted, whenever its
\* earlier requests were made; a request answered 429 neither increments
\* the counter nor extends the window.
C30_RetryAfterHonoured ==
    [][(/\ mwExchange # <<>>
        /\ mwExchange[1].response.status = 429
        /\ mwExchange' # mwExchange
        /\ IsApiExchange(mwExchange'[1])
        /\ mwExchange'[1].key = mwExchange[1].key) =>
            /\ mwExchange'[1].response.status = 429 =>
                  C30_EntryOf(rateLimitMap', mwExchange[1].key)
                      = C30_EntryOf(rateLimitMap, mwExchange[1].key)
            /\ mwExchange'[1].time >= mwExchange[1].time + RATE_LIMIT_WINDOW =>
                  mwExchange'[1].response.status # 429]_vars

(***************************************************************************)
(* Specification of the middleware with more than 10,000 keys tracked: the *)
(* map holds one request of each of 10,000 clients made at instant 0, then *)
(* 30 requests of the client x made at instant 1 and 28 requests without a *)
(* forwarded address made at instant 2; the clock stands at 60001          *)
(***************************************************************************)
InitCrowded ==
    /\ InitPage
    /\ InitGateway
    /\ now = RATE_LIMIT_WINDOW + 1
    /\ mwExchange = <<>>
    /\ rateLimitMap =
          [i \in 1..CleanupThreshold |->
              [key |-> [j \in 1..4 |->
                          CHOOSE c \in Digits :
                              DigitValue(c) = ((i - 1) \div (10 ^ (4 - j))) % 10],
               count |-> 1, timestamp |-> 0]]
          \o << [key |-> <<"x">>, count |-> MAX_REQUESTS_PER_WINDOW, timestamp |-> 1],
                [key |-> Unknown, count |-> 28, timestamp |-> 2] >>
    /\ uncleaned = rateLimitMap
    /\ admitted =
          (<<"x">> :> [i \in 1..MAX_REQUESTS_PER_WINDOW |-> 1])
          @@ (Unknown :> [i \in 1..28 |-> 2])

NextCrowded ==
    \E r \in MwRequests, t \in {RATE_LIMIT_WINDOW + 1, RATE_LIMIT_WINDOW + 2} :
        Middleware(r, t)

SpecCrowded == InitCrowded /\ [][NextCrowded]_vars

\* the entries that still count at instant t, whatever their order
C28_Live(map, t) ==
    LET live == SelectSeq(map, LAMBDA e : t - e.timestamp <= RATE_LIMIT_WINDOW) IN
    {live[i] : i \in 1..Len(live)}

C28_Inv == C28_Live(rateLimitMap, now) = C28_Live(uncleaned, now)

C28_Step ==
    (mwExchange' # mwExchange /\ IsApiExchange(mwExchange'[1])) =>
        LET x == mwExchange'[1] IN
        /\ (x.response.status = 429)
              = isRateLimitedWithoutCleanup(uncleaned, x.key, x.time).limited
        /\ \A other \in {<<"x">>, Unknown} \ {x.key} :
              (x.response.status = 429)
                 = isRateLimited(SelectSeq(rateLimitMap, LAMBDA e : e.key # other),
                                 x.key, x.time).limited

\* C28: the decision of the rate limiter for a request depends on the
\* times of the earlier requests with the same key only: the requests of
\* other keys and the cleanup pass that runs when more than 10,000 keys
\* are tracked never change whether a request is admitted; the limiter
\* with cleanup admits and rejects the same requests as the limiter
\* without it.
C28_CleanupChangesNoDecision == [](C28_Inv) /\ [][C28_Step]_vars

\* the cleanup pass has deleted the 10,000 entries of instant 0 and the
\* client x, whose 30 requests of instant 1 it kept, is rejected after it
C28_Witness ==
    /\ Len(rateLimitMap) = 2
    /\ Len(uncleaned) > CleanupThreshold
    /\ mwExchange # <<>>
    /\ mwExchange[1].key = <<"x">>
    /\ mwExchange[1].time = RATE_LIMIT_WINDOW + 1
    /\ mwExchange[1].response.status = 429

(***************************************************************************)
(* Specification of one bulk run behind the middleware: every dispatch of  *)
(* the run passes the middleware of the portal, the first at instant 0,    *)
(* each later one delayMs after the answer to the one before; the answers  *)
(* arrive at once                                                          *)
(***************************************************************************)
\* the number of entries of the longest bulk text
MaxPacedEntries == 31

\* the middleware sees the browser's fetch('/api/report') without a
\* forwarded address; the page receives the 429 of the middleware or the
\* 200 of the route handler
NextPaced ==
    \/ \E a \in {x \in Accounts : x.name # <<>>} :
            AccountsEffect(a) /\ UNCHANGED <<gwVars, mwVars>>
    \/ ~isSubmitting /\ SetIncidentType("Phishing") /\ UNCHANGED <<gwVars, mwVars>>
    \/ ~isSubmitting /\ SetThreatType("URL") /\ UNCHANGED <<gwVars, mwVars>>
    \/ ~isSubmitting /\ SetDescription(<<"d">>) /\ UNCHANGED <<gwVars, mwVars>>
    \/ \E n \in (MaxPacedEntries - 1)..MaxPacedEntries :
            /\ ~isSubmitting
            /\ SetBulkData([i \in 1..(2 * n - 1) |-> IF i % 2 = 1 THEN "a" ELSE "\n"])
            /\ UNCHANGED <<gwVars, mwVars>>
    \/ \E v \in {100, DefaultDelayMs, 2000, 5000} :
            ~isSubmitting /\ SetDelayMs(v) /\ UNCHANGED <<gwVars, mwVars>>
    \/ /\ mwExchange = <<>>
       /\ bulkData # <<>>
       /\ HandleSubmitStart
       /\ MiddlewareEffect([pathname |-> <<"/", "a", "p", "i", "/", "r", "e", "p", "o", "r", "t">>,
                            headers |-> <<>>], now)
       /\ UNCHANGED gwVars
    \/ /\ FetchSettles(IF mwExchange[1].response.status = 429
                        THEN [kind |-> "response", status |-> 429,
                              body |-> JsonText(JObj([error |-> JStr("Too Many Requests")]))]
                        ELSE [kind |-> "response", status |-> 200,
                              body |-> JsonText(JObj([id |-> JStr("r")]))])
       /\ UNCHANGED <<gwVars, mwVars>>
    \/ /\ DelayElapses
       /\ MiddlewareEffect([pathname |-> <<"/", "a", "p", "i", "/", "r", "e", "p", "o", "r", "t">>,
                            headers |-> <<>>], now + run.delayMs)
       /\ UNCHANGED gwVars

SpecPaced == Init /\ [][NextPaced]_vars

\* C29: in a bulk run made with the default delay of 1000 ms, or with any
\* delay the form allows (100 to 5000 ms), no dispatch of the run is
\* answered 429 by the middleware on account of the earlier dispatches of
\* the same run, however many entries the run has.
C29_RunStaysWithinLimit ==
    (isSubmitting /\ mwExchange # <<>>) => mwExchange[1].response.status # 429

====
